---------------------------- MODULE Spec2Model ----------------------------
(***************************************************************************)
(* A model of the SusSweatShop posting bot: the dedup ledger of the        *)
(* channel reader (src/src/discord_fetcher.py), the orchestrator's run     *)
(* modes (src/src/main.py, src/src/daily_summary.py), the result grader    *)
(* (src/src/sports_results.py) and the tweet composer                      *)
(* (src/src/ai_writer.py).                                                 *)
(*                                                                         *)
(* Texts are TLA+ strings; message ids are naturals whose order is the     *)
(* order of creation (Discord snowflakes grow with time).                  *)
(***************************************************************************)
EXTENDS Integers, Sequences, FiniteSets, TLC

VARIABLES
    ledgerFile,   \* posted_picks.json: [status, ids]
    diskFaulty,   \* environment: whether writing the ledger file can fail
    added,        \* history: the ids handed to mark_as_posted, in call order
    sinceGet,     \* history: ids marked since the last get_unposted_picks
    lastCall,     \* the last DiscordFetcher call and what it saw and returned
    channel,      \* the messages of the Discord channel, newest first, where
                  \* successive runs read it (empty where a fetch may see any list)
    pc,           \* where the process started by main() stands
    args,         \* the command line: max_posts, dry_run, verify_only, recap, daily_summary
    picks,        \* run(): the picks get_unposted_picks returned
    idx,          \* run(): the place in picks of the pick in process
    image_path,   \* run(), run_recap(): whether an image is at hand for the post
    successful,   \* what run(), run_recap() or run_daily_summary() returns
    verified,     \* history: what verify_credentials returned in this process
    tweetCalls,   \* history: create_tweet calls made by this process
    postedOk,     \* history: ids of the picks whose post_tweet returned a tweet
                  \* (0 for the tweet of a recap or of a daily summary)
    dirty,        \* the scratch directory holds a downloaded image
    cleaned,      \* history: ImageFetcher.cleanup() ran in this process
    exitCode,     \* the exit code of the process, once it has ended
    handled,      \* history: how the loop of run() left each pick, in order
    createCalls,  \* history: the create_tweet calls of post_tweet, in order
    input,        \* the arguments of a call of a function without side effects
    output        \* what that call returned

ledgerVars == <<ledgerFile, diskFaulty, added, sinceGet, lastCall, channel>>

runVars == <<pc, args, picks, idx, image_path, successful, verified, tweetCalls,
             postedOk, dirty, cleaned, exitCode, handled, createCalls>>

callVars == <<input, output>>

vars == <<ledgerFile, diskFaulty, added, sinceGet, lastCall, channel,
          pc, args, picks, idx, image_path, successful, verified, tweetCalls,
          postedOk, dirty, cleaned, exitCode, handled, createCalls, input, output>>

---------------------------------------------------------------------------
(* Text helpers: Python's str.lower, str.strip, the `in` operator.         *)

LowerChar(c) ==
    CASE c = "A" -> "a" [] c = "B" -> "b" [] c = "C" -> "c" [] c = "D" -> "d"
      [] c = "E" -> "e" [] c = "F" -> "f" [] c = "G" -> "g" [] c = "H" -> "h"
      [] c = "I" -> "i" [] c = "J" -> "j" [] c = "K" -> "k" [] c = "L" -> "l"
      [] c = "M" -> "m" [] c = "N" -> "n" [] c = "O" -> "o" [] c = "P" -> "p"
      [] c = "Q" -> "q" [] c = "R" -> "r" [] c = "S" -> "s" [] c = "T" -> "t"
      [] c = "U" -> "u" [] c = "V" -> "v" [] c = "W" -> "w" [] c = "X" -> "x"
      [] c = "Y" -> "y" [] c = "Z" -> "z" [] OTHER -> c

CharAt(s, i) == SubSeq(s, i, i)

RECURSIVE Lower(_)
Lower(s) == IF Len(s) = 0 THEN "" ELSE LowerChar(CharAt(s, 1)) \o Lower(Tail(s))

\* sub in s
Contains(s, sub) ==
    \E i \in 1..(Len(s) - Len(sub) + 1) : SubSeq(s, i, i + Len(sub) - 1) = sub

IsSpace(c) == c \in {" ", "\n", "\t"}

RECURSIVE LStrip(_)
LStrip(s) == IF Len(s) > 0 /\ IsSpace(CharAt(s, 1)) THEN LStrip(Tail(s)) ELSE s

RECURSIVE RStrip(_)
RStrip(s) ==
    IF Len(s) > 0 /\ IsSpace(CharAt(s, Len(s)))
    THEN RStrip(SubSeq(s, 1, Len(s) - 1)) ELSE s

Strip(s) == RStrip(LStrip(s))

IsDigit(c) == c \in {"0", "1", "2", "3", "4", "5", "6", "7", "8", "9"}

Range(f) == {f[i] : i \in DOMAIN f}

Min(a, b) == IF a <= b THEN a ELSE b

SetMin(S) == CHOOSE x \in S : \A y \in S : x <= y

\* the elements of a set of numbers, ascending
RECURSIVE Ascending(_)
Ascending(S) ==
    IF S = {} THEN <<>> ELSE <<SetMin(S)>> \o Ascending(S \ {SetMin(S)})

\* Python's s[-n:] for n > 0
LastN(s, n) == IF Len(s) <= n THEN s ELSE SubSeq(s, Len(s) - n + 1, Len(s))

\* Python's s[:n] for n >= 0
FirstN(s, n) == SubSeq(s, 1, Min(n, Len(s)))

---------------------------------------------------------------------------
(* Bounds of the channel-reader model, and the messages it fetches.       *)

MaxMsgs == 2      \* messages in one fetched list
MaxLimit == 2     \* the limit handed to get_unposted_picks
MaxMarks == 2     \* mark_as_posted calls in one behaviour

\* ids of picks: one posted long ago, and the two that follow a ledger of
\* POSTED_CAP ids
OldId == 2
NewIds == {101, 102}
MsgIds == {OldId} \cup NewIds

\* the id posted last before the new ones, in a ledger of the ids 1..100:
\* its message is still among the most recent of the channel
LastPostedId == 100 + 0

Messages ==
    [id : MsgIds, content : {" Lakers ML -150 "}, bot : {FALSE}]
      \cup {[id |-> 103, content |-> "gm", bot |-> FALSE],
            [id |-> 105, content |-> "nice win", bot |-> FALSE],
            [id |-> 104, content |-> "Lakers ML -150", bot |-> TRUE]}

\* the messages of a set, newest first: the order the channel returns them in
RECURSIVE NewestFirst(_)
NewestFirst(M) ==
    IF M = {} THEN <<>>
    ELSE LET m == CHOOSE x \in M : \A y \in M : y.id <= x.id
         IN  <<m>> \o NewestFirst(M \ {m})

\* what get_recent_messages can return: messages of the channel, or [] when
\* the request fails (discord_fetcher.py lines 42-48)
MessageLists ==
    {NewestFirst(M) : M \in {X \in SUBSET Messages : Cardinality(X) <= MaxMsgs}}

---------------------------------------------------------------------------
(* DiscordFetcher: extraction and the dedup ledger.                        *)

betting_keywords ==
    <<"over", "under", "ml", "moneyline", "+", "-",
      "spread", "pts", "points", "rebounds", "assists",
      "vs", "vs.", "@", "parlay", "straight", "pick",
      "lock", "potd", "play", "bet", "unit", "units">>

\* the f"+{i}" and f"-{i}" of has_odds, for i in range(100, 500)
OddsTokens ==
    {"+" \o ToString(i) : i \in 100..499} \cup {"-" \o ToString(i) : i \in 100..499}

has_odds(content) == \E t \in OddsTokens : Contains(content, t)

has_keyword(content) ==
    \E k \in DOMAIN betting_keywords : Contains(Lower(content), betting_keywords[k])

is_valid_pick(content) == has_keyword(content) \/ has_odds(content)

\* the loop body's test of extract_picks: a message becomes a pick
IsPickMessage_BotsToo(msg) ==
    /\ Strip(msg.content) # ""
    /\ is_valid_pick(Strip(msg.content))

IsPickMessage(msg) ==
    /\ Strip(msg.content) # ""
    /\ ~msg.bot
    /\ is_valid_pick(Strip(msg.content))

PickOf(msg) == [id |-> msg.id, content |-> Strip(msg.content)]

extract_picks(messages) ==
    LET kept == SelectSeq(messages, IsPickMessage)
    IN  [i \in DOMAIN kept |-> PickOf(kept[i])]

\* the ledger file: missing, readable JSON holding posted_ids, corrupt
\* (unreadable, or text that is not JSON), or garbled (bytes that are not
\* text, or JSON of another shape than an object whose posted_ids is a list)
LedgerMissing == [status |-> "missing", ids |-> <<>>]
LedgerCorrupt == [status |-> "corrupt", ids |-> <<>>]
LedgerGarbled == [status |-> "garbled", ids |-> <<>>]
LedgerOf(ids) == [status |-> "ok", ids |-> ids]

load_posted_picks(file) == IF file.status = "ok" THEN Range(file.ids) ELSE {}

\* _load_posted_picks catches json.JSONDecodeError and IOError, nothing
\* else: the UnicodeDecodeError of f.read(), the AttributeError of data.get
\* and the TypeError of set() leave it
load_raises(file) == file.status = "garbled"

PickIds(ps) == {ps[i].id : i \in DOMAIN ps}

get_unposted_picks_Unlimited(messages, limit, file) ==
    LET extracted == extract_picks(messages)
        posted_ids == load_posted_picks(file)
        NotPosted(p) == p.id \notin posted_ids
    IN  SelectSeq(extracted, NotPosted)

get_unposted_picks(messages, limit, file) ==
    LET extracted == extract_picks(messages)
        posted_ids == load_posted_picks(file)
        NotPosted(p) == p.id \notin posted_ids
        unposted == SelectSeq(extracted, NotPosted)
    IN  FirstN(unposted, limit)

POSTED_CAP == 100

\* list(set): the iteration order of a set of strings follows their hashes,
\* which differ from process to process.  Ids that no message of the model
\* carries are interchangeable but for their age, so the orders listed let
\* come first: the oldest id, every id a message can carry, and one other
\* id; the rest follows in ascending order.  The truncation to the last
\* POSTED_CAP of at most POSTED_CAP + 1 entries reads no more of the order
\* than its first element.
FirstCandidates(S) ==
    IF S = {} THEN {}
    ELSE LET rest == S \ (MsgIds \cup {LastPostedId, SetMin(S)})
         IN  {SetMin(S)} \cup (S \cap (MsgIds \cup {LastPostedId}))
               \cup (IF rest = {} THEN {} ELSE {SetMin(rest)})

ListOfSet(S) ==
    IF S = {} THEN {<<>>}
    ELSE {<<e>> \o Ascending(S \ {e}) : e \in FirstCandidates(S)}

WriteOutcomes(faulty) == IF faulty THEN {"ok", "open_failed", "partial"} ELSE {"ok"}

\* mark_as_posted, given the order list(set) produced and how the write went:
\* "open_failed" leaves the file as it was, "partial" leaves a truncated file
mark_as_posted(file, pick_id, order, wr) ==
    LET posted_ids == LastN(Append(order, pick_id), POSTED_CAP)
    IN  CASE wr = "ok" -> LedgerOf(posted_ids)
          [] wr = "open_failed" -> file
          [] OTHER -> LedgerCorrupt

---------------------------------------------------------------------------
(* The channel reader driven call by call: any mark_as_posted calls, then  *)
(* a get_unposted_picks call.  get_unposted_picks writes nothing (see      *)
(* GetUnposted), so whatever can follow it can follow the state it was     *)
(* called in, and a behaviour is explored up to its first fetch.           *)

NoCall == [op |-> "none"]

\* ledgers the program can have written: ids 1..n, posted in that order
InitLedgerFiles ==
    {LedgerMissing, LedgerCorrupt, LedgerOf(<<>>),
     LedgerOf([i \in 1..POSTED_CAP |-> i])}

InitLedgerVars ==
    /\ ledgerFile \in InitLedgerFiles
    /\ added = ledgerFile.ids
    /\ diskFaulty \in BOOLEAN
    /\ sinceGet = {}
    /\ lastCall = NoCall
    /\ channel = <<>>

\* no process is running
NoProcess ==
    /\ pc = "none"
    /\ args = [max_posts |-> 0, dry_run |-> FALSE, verify_only |-> FALSE,
               recap |-> FALSE, daily_summary |-> FALSE]
    /\ picks = <<>>
    /\ idx = 0
    /\ image_path = FALSE
    /\ successful = 0
    /\ verified = "not called"
    /\ tweetCalls = 0
    /\ postedOk = {}
    /\ dirty = FALSE
    /\ cleaned = FALSE
    /\ exitCode = -1
    /\ handled = <<>>
    /\ createCalls = <<>>

\* no function is being called
NoInput == [fn |-> "none"]
NoOutput == [fn |-> "none"]
NoFunctionCall ==
    /\ input = NoInput
    /\ output = NoOutput

InitLedger == InitLedgerVars /\ NoProcess /\ NoFunctionCall

\* get_unposted_picks opens the ledger file in _load_posted_picks, for
\* reading, and nowhere else: the file is after the call what it was before
LedgerAfterGet_Created(file) == IF file.status = "ok" THEN file ELSE LedgerOf(<<>>)
LedgerAfterGet(file) == file

\* a call of get_unposted_picks on the messages fetched
CallGetUnposted(messages, limit) ==
    /\ lastCall' = [op |-> "get_unposted_picks",
                    messages |-> messages,
                    limit |-> limit,
                    marked |-> sinceGet,
                    raised |-> load_raises(ledgerFile),
                    ret |-> IF load_raises(ledgerFile) THEN <<>>
                            ELSE get_unposted_picks(messages, limit, ledgerFile)]
    /\ sinceGet' = {}
    /\ ledgerFile' = LedgerAfterGet(ledgerFile)
    /\ UNCHANGED <<diskFaulty, added, channel>>

\* a call of mark_as_posted
CallMarkAsPosted(pick_id) ==
    /\ IF load_raises(ledgerFile)
       THEN /\ lastCall' = [op |-> "mark_as_posted",
                            pick_id |-> pick_id,
                            raised |-> TRUE,
                            loaded |-> 0,
                            dropped |-> {},
                            wrote |-> FALSE]
            /\ UNCHANGED ledgerFile
       ELSE \E order \in ListOfSet(load_posted_picks(ledgerFile)),
               wr \in WriteOutcomes(diskFaulty) :
               /\ ledgerFile' = mark_as_posted(ledgerFile, pick_id, order, wr)
               /\ lastCall' = [op |-> "mark_as_posted",
                               pick_id |-> pick_id,
                               raised |-> FALSE,
                               loaded |-> Len(order),
                               dropped |-> IF wr = "ok"
                                           THEN Range(order) \ Range(ledgerFile'.ids)
                                           ELSE {},
                               wrote |-> (wr = "ok")]
    /\ added' = Append(added, pick_id)
    /\ sinceGet' = sinceGet \cup {pick_id}
    /\ UNCHANGED <<diskFaulty, channel>>

Fetched == lastCall.op = "get_unposted_picks"

GetUnposted ==
    /\ ~Fetched
    /\ \E messages \in MessageLists, limit \in 1..MaxLimit :
          CallGetUnposted(messages, limit)
    /\ UNCHANGED <<runVars, callVars>>

MarkAsPosted ==
    /\ ~Fetched
    /\ Len(added) < Len(ledgerFile.ids) + MaxMarks
    /\ \E pick_id \in NewIds : CallMarkAsPosted(pick_id)
    /\ UNCHANGED <<runVars, callVars>>

NextLedger == GetUnposted \/ MarkAsPosted

SpecLedger == InitLedger /\ [][NextLedger]_vars

\* the same, on a disk that never fails a write
InitLedgerReliable == InitLedger /\ ~diskFaulty

SpecLedgerReliable == InitLedgerReliable /\ [][NextLedger]_vars

\* the same, started on a ledger file that cannot be read as a ledger
InitLedgerDamaged ==
    /\ ledgerFile \in {LedgerMissing, LedgerCorrupt, LedgerGarbled}
    /\ added = <<>>
    /\ diskFaulty \in BOOLEAN
    /\ sinceGet = {}
    /\ lastCall = NoCall
    /\ channel = <<>>
    /\ NoProcess
    /\ NoFunctionCall

SpecLedgerDamaged == InitLedgerDamaged /\ [][NextLedger]_vars

---------------------------------------------------------------------------
(* One process: main() and the mode it runs (src/src/main.py).             *)

MaxPosts == 2     \* the largest --max-posts of the model

Mode ==
    IF args.verify_only THEN "verify_only"
    ELSE IF args.daily_summary THEN "daily_summary"
    ELSE IF args.recap THEN "recap"
    ELSE "regular"

Init ==
    /\ InitLedgerVars
    /\ pc = "main"
    /\ args \in [max_posts : 1..MaxPosts, dry_run : BOOLEAN, verify_only : BOOLEAN,
                 recap : BOOLEAN, daily_summary : BOOLEAN]
    /\ picks = <<>>
    /\ idx = 0
    /\ image_path = FALSE
    /\ successful = 0
    /\ verified = "not called"
    /\ tweetCalls = 0
    /\ postedOk = {}
    /\ dirty = FALSE
    /\ cleaned = FALSE
    /\ exitCode = -1
    /\ handled = <<>>
    /\ createCalls = <<>>
    /\ NoFunctionCall

\* what TwitterPoster.post_tweet can do: return the tweet, return None
\* (a TweepyException, caught), or let another exception through
PostOutcomes == {"tweet", "none", "raise"}

\* what TwitterPoster.verify_credentials can do: return True, return False
\* (no client, or a TweepyException), or let another exception through
VerifyOutcomes == {"ok", "failed", "raised"}

\* "if not self.twitter.verify_credentials()": only True lets a mode go on
VerifiedAlways(v) == TRUE
Verified(v) == v = "ok"

\* "if dry_run:" before the post: a dry run prints the tweet and stops there
RendersOnly_Never(dry_run) == FALSE
RendersOnly(dry_run) == dry_run

\* "if result:" after post_tweet: only a tweet leads to mark_as_posted
MarksAfterAnyPost(outcome) == TRUE
MarksAfter(outcome) == outcome = "tweet"

\* an exception nothing catches ends the process with exit code 1
Uncaught ==
    /\ pc' = "done"
    /\ exitCode' = 1

\* --verify-only: main() lines 300-333; nothing is posted
VerifyOnly ==
    /\ pc = "main" /\ Mode = "verify_only"
    /\ \E v \in VerifyOutcomes :
          /\ verified' = v
          /\ exitCode' = IF Verified(v) THEN 0 ELSE 1
    /\ pc' = "done"
    /\ UNCHANGED <<callVars, createCalls, handled, ledgerVars, args, picks, idx, image_path, successful, tweetCalls,
                   postedOk, dirty, cleaned>>

\* run() lines 47-52: the credentials are verified unless this is a dry run
RunVerify ==
    /\ pc = "main" /\ Mode = "regular"
    /\ IF args.dry_run
       THEN /\ pc' = "fetch"
            /\ UNCHANGED <<verified, successful, exitCode>>
       ELSE \E v \in VerifyOutcomes :
              /\ verified' = v
              /\ successful' = 0
              /\ IF v = "raised"
                 THEN Uncaught
                 ELSE /\ pc' = IF Verified(v) THEN "fetch" ELSE "exit"
                      /\ UNCHANGED exitCode
    /\ UNCHANGED <<callVars, createCalls, handled, ledgerVars, args, picks, idx, image_path, tweetCalls, postedOk,
                   dirty, cleaned>>

\* run() lines 54-62: get_unposted_picks, which downloads the images of
\* the picks it returns (discord_fetcher.py lines 245-247); no pick ends
\* the run
RunFetchOf(messages) ==
    /\ pc = "fetch"
    /\ CallGetUnposted(messages, args.max_posts)
    /\ picks' = lastCall'.ret
    /\ \E image \in BOOLEAN : dirty' = (dirty \/ (image /\ picks' # <<>>))
    /\ IF picks' = <<>>
       THEN pc' = "exit" /\ idx' = 0 /\ successful' = 0
       ELSE pc' = "process" /\ idx' = 1 /\ successful' = 0
    /\ UNCHANGED <<callVars, createCalls, handled, args, image_path, verified, tweetCalls, postedOk, cleaned,
                   exitCode>>

RunFetch == \E messages \in MessageLists : RunFetchOf(messages)

\* the for loop of run() moves to the next of picks[:max_posts], or ends
NextPick ==
    /\ idx' = idx + 1
    /\ pc' = IF idx + 1 <= Len(FirstN(picks, args.max_posts)) THEN "process" ELSE "cleanup"

\* run() lines 141-144: "except Exception" inside the loop prints the
\* error, and the loop goes on
AfterRaise_EndsLoop == pc' = "cleanup" /\ idx' = idx
AfterRaise == NextPick

\* post_tweet lines 69-75: the image is uploaded when there is one, and
\* the tweet carries it when upload_media returned an id
media_ids_Always(image, uploaded) == TRUE
media_ids(image, uploaded) == image /\ uploaded

\* a create_tweet call of post_tweet: for which pick (0: a recap or a daily
\* summary), whether post_tweet was handed an image, whether the tweet
\* carries media, and how the call ended
Tweet(id, image, uploaded, outcome) ==
    [pick |-> id, image_path |-> image, media |-> media_ids(image, uploaded),
     outcome |-> outcome]

\* how the loop left a pick
Left(pick, how) == [id |-> pick.id, how |-> how]

\* run() lines 70-127: the slip link, the image and the tweet text of the
\* pick; any exception ends the pick (lines 141-144); a dry run prints
RunProcess ==
    /\ pc = "process"
    /\ \E raised \in BOOLEAN, image \in BOOLEAN :
          IF raised
          THEN /\ AfterRaise
               /\ handled' = Append(handled, Left(picks[idx], "raised"))
               /\ UNCHANGED <<image_path, successful>>
               /\ dirty' = (dirty \/ image)
          ELSE /\ image_path' = image
               /\ dirty' = (dirty \/ image)
               /\ IF RendersOnly(args.dry_run)
                  THEN /\ successful' = successful + 1
                       /\ handled' = Append(handled, Left(picks[idx], "rendered"))
                       /\ NextPick
                  ELSE pc' = "post" /\ UNCHANGED <<idx, successful, handled>>
    /\ UNCHANGED <<callVars, createCalls, ledgerVars, args, picks, verified, tweetCalls, postedOk, cleaned,
                   exitCode>>

\* run() lines 129-139: post_tweet; a tweet leads to mark_as_posted
RunPost ==
    /\ pc = "post"
    /\ tweetCalls' = tweetCalls + 1
    /\ \E outcome \in PostOutcomes, uploaded \in BOOLEAN :
          /\ createCalls' = Append(createCalls, Tweet(picks[idx].id, image_path, uploaded, outcome))
          /\ postedOk' = IF outcome = "tweet" THEN postedOk \cup {picks[idx].id}
                                              ELSE postedOk
          /\ IF outcome = "raise"
             THEN /\ AfterRaise
                  /\ handled' = Append(handled, Left(picks[idx], "post raised"))
             ELSE IF MarksAfter(outcome)
             THEN pc' = "mark" /\ UNCHANGED <<idx, handled>>
             ELSE /\ NextPick
                  /\ handled' = Append(handled, Left(picks[idx], "not posted"))
    /\ UNCHANGED <<callVars, ledgerVars, args, picks, image_path, successful, verified, dirty,
                   cleaned, exitCode>>

\* run() lines 136-137
RunMark ==
    /\ pc = "mark"
    /\ CallMarkAsPosted(picks[idx].id)
    /\ successful' = successful + 1
    /\ handled' = Append(handled, Left(picks[idx], "posted"))
    /\ NextPick
    /\ UNCHANGED <<callVars, createCalls, args, picks, image_path, verified, tweetCalls, postedOk, dirty,
                   cleaned, exitCode>>

\* run() lines 146-154
RunCleanup ==
    /\ pc = "cleanup"
    /\ cleaned' = TRUE
    /\ dirty' = FALSE
    /\ pc' = "exit"
    /\ UNCHANGED <<callVars, createCalls, handled, ledgerVars, args, picks, idx, image_path, successful, verified,
                   tweetCalls, postedOk, exitCode>>

\* run_recap() lines 170-175: verified outside the try, so without cleanup
RecapVerify ==
    /\ pc = "main" /\ Mode = "recap"
    /\ IF args.dry_run
       THEN /\ pc' = "recap"
            /\ UNCHANGED <<verified, successful, exitCode>>
       ELSE \E v \in VerifyOutcomes :
              /\ verified' = v
              /\ successful' = 0
              /\ IF v = "raised"
                 THEN Uncaught
                 ELSE /\ pc' = IF Verified(v) THEN "recap" ELSE "exit"
                      /\ UNCHANGED exitCode
    /\ UNCHANGED <<callVars, createCalls, handled, ledgerVars, args, picks, idx, image_path, tweetCalls, postedOk,
                   dirty, cleaned>>

\* run_recap() lines 177-215 and 228-237: results, tweet text and image;
\* an exception, or a dry run, returns through the finally clause
RecapPrepare ==
    /\ pc = "recap"
    /\ \E raised \in BOOLEAN, image \in BOOLEAN :
          IF raised \/ RendersOnly(args.dry_run)
          THEN /\ successful' = IF raised THEN 0 ELSE 1
               /\ cleaned' = TRUE
               /\ dirty' = FALSE
               /\ pc' = "exit"
               /\ UNCHANGED image_path
          ELSE /\ image_path' = image
               /\ dirty' = (dirty \/ image)
               /\ pc' = "recap_post"
               /\ UNCHANGED <<successful, cleaned>>
    /\ UNCHANGED <<callVars, createCalls, handled, ledgerVars, args, picks, idx, verified, tweetCalls, postedOk,
                   exitCode>>

\* run_recap() lines 216-237
RecapPost ==
    /\ pc = "recap_post"
    /\ tweetCalls' = tweetCalls + 1
    /\ \E outcome \in PostOutcomes, uploaded \in BOOLEAN :
          /\ createCalls' = Append(createCalls, Tweet(0, image_path, uploaded, outcome))
          /\ successful' = IF outcome = "tweet" THEN 1 ELSE 0
          /\ postedOk' = IF outcome = "tweet" THEN postedOk \cup {0} ELSE postedOk
    /\ cleaned' = TRUE
    /\ dirty' = FALSE
    /\ pc' = "exit"
    /\ UNCHANGED <<callVars, handled, ledgerVars, args, picks, idx, image_path, verified, exitCode>>

\* run_daily_summary() and post_daily_summary() lines 215-229: the tweet
\* is generated before anything else, from today's picks, whose images
\* get_todays_picks_for_recap downloads; an exception returns 0
SummaryPrepare ==
    /\ pc = "main" /\ Mode = "daily_summary"
    /\ \E raised \in BOOLEAN, image \in BOOLEAN :
          /\ dirty' = (dirty \/ image)
          /\ IF raised \/ RendersOnly(args.dry_run)
             THEN /\ successful' = IF raised THEN 0 ELSE 1
                  /\ pc' = "exit"
             ELSE /\ pc' = "summary_verify"
                  /\ UNCHANGED successful
    /\ UNCHANGED <<callVars, createCalls, handled, ledgerVars, args, picks, idx, image_path, verified,
                   tweetCalls, postedOk, cleaned, exitCode>>

\* post_daily_summary() lines 231-236
SummaryVerify ==
    /\ pc = "summary_verify"
    /\ \E v \in VerifyOutcomes :
          /\ verified' = v
          /\ pc' = IF Verified(v) THEN "summary_post" ELSE "exit"
          /\ successful' = 0
    /\ UNCHANGED <<callVars, createCalls, handled, ledgerVars, args, picks, idx, image_path, tweetCalls, postedOk,
                   dirty, cleaned, exitCode>>

\* post_daily_summary() lines 238-245
SummaryPost ==
    /\ pc = "summary_post"
    /\ tweetCalls' = tweetCalls + 1
    /\ \E outcome \in PostOutcomes :
          /\ createCalls' = Append(createCalls, Tweet(0, FALSE, FALSE, outcome))
          /\ successful' = IF outcome = "tweet" THEN 1 ELSE 0
          /\ postedOk' = IF outcome = "tweet" THEN postedOk \cup {0} ELSE postedOk
    /\ pc' = "exit"
    /\ UNCHANGED <<callVars, handled, ledgerVars, args, picks, idx, image_path, verified,
                   dirty, cleaned, exitCode>>

\* main() line 346
exit_code_IgnoresDryRun(posts, dry_run) == IF posts > 0 THEN 0 ELSE 1
exit_code(posts, dry_run) == IF posts > 0 \/ dry_run THEN 0 ELSE 1

Exit ==
    /\ pc = "exit"
    /\ exitCode' = exit_code(successful, args.dry_run)
    /\ pc' = "done"
    /\ UNCHANGED <<callVars, createCalls, handled, ledgerVars, args, picks, idx, image_path, successful, verified,
                   tweetCalls, postedOk, dirty, cleaned>>

Next ==
    \/ VerifyOnly
    \/ RunVerify \/ RunFetch \/ RunProcess \/ RunPost \/ RunMark \/ RunCleanup
    \/ RecapVerify \/ RecapPrepare \/ RecapPost
    \/ SummaryPrepare \/ SummaryVerify \/ SummaryPost
    \/ Exit

Spec == Init /\ [][Next]_vars

---------------------------------------------------------------------------
(* Claims about the dedup ledger.                                          *)

\* the ids the ledger file holds
PersistedIds == Range(ledgerFile.ids)

\* C1: get_unposted_picks returns no pick whose id is in the persisted
\* ledger at the time of the call, and no pick whose id was handed to a
\* mark_as_posted call completed since the previous get_unposted_picks.
C1_UnpostedExcludesMarked ==
    Fetched =>
        /\ PickIds(lastCall.ret) \cap PersistedIds = {}
        /\ PickIds(lastCall.ret) \cap lastCall.marked = {}

\* the place in the history h of the latest addition of id x
AddedAt(h, x) == CHOOSE i \in DOMAIN h : h[i] = x /\ \A j \in DOMAIN h : j > i => h[j] # x

\* C2: after a mark_as_posted call the ledger holds at most POSTED_CAP ids,
\* and every id the call evicted was added before every id it retained.
C2_LedgerKeepsMostRecent ==
    (lastCall.op = "mark_as_posted" /\ lastCall.wrote) =>
        /\ Len(ledgerFile.ids) <= POSTED_CAP
        /\ \A x \in lastCall.dropped : \A y \in PersistedIds :
              AddedAt(SubSeq(added, 1, Len(added) - 1), x) < AddedAt(added, y)

---------------------------------------------------------------------------
(* Claims about one process.                                               *)

\* C3: in a regular run mark_as_posted is called for a pick only after
\* post_tweet returned a tweet for that pick in this run, so a failed post
\* never marks; and a pick whose post succeeded is marked before the loop
\* goes on to the next pick.
C3_MarkOnlyAfterPost ==
    Mode = "regular" =>
        /\ sinceGet \subseteq postedOk
        /\ lastCall.op = "mark_as_posted" => lastCall.pick_id \in postedOk
        /\ postedOk \ sinceGet \subseteq (IF pc = "mark" THEN {picks[idx].id} ELSE {})

C3_Witness ==
    /\ Mode = "regular" /\ pc = "done"
    /\ tweetCalls = 2
    /\ Cardinality(postedOk) = 1
    /\ sinceGet = postedOk

\* C4: when the run is not a dry run, post_tweet is called only after
\* verify_credentials returned True in this execution; when the
\* verification does not return True no post is attempted and the exit
\* code is not 0.
C4_VerifyBeforePost ==
    ~args.dry_run =>
        /\ tweetCalls > 0 => verified = "ok"
        /\ verified \in {"failed", "raised"} =>
              /\ tweetCalls = 0
              /\ pc = "done" => exitCode # 0

C4_Witness ==
    /\ Mode = "daily_summary" /\ ~args.dry_run
    /\ pc = "done"
    /\ verified = "failed"
    /\ exitCode = 1

---------------------------------------------------------------------------
(* The result grader (src/src/sports_results.py).                          *)

MaxGames == 2     \* the longest scoreboard of the model

sport_leagues == {"NBA", "NFL", "MLB", "NHL", "NCAAB", "NCAAF"}

team_aliases ==
    << <<"lakers", "Los Angeles Lakers">>, <<"celtics", "Boston Celtics">>,
       <<"warriors", "Golden State Warriors">>, <<"nets", "Brooklyn Nets">>,
       <<"knicks", "New York Knicks">>, <<"heat", "Miami Heat">>,
       <<"bulls", "Chicago Bulls">>, <<"cavs", "Cleveland Cavaliers">>,
       <<"cavaliers", "Cleveland Cavaliers">>, <<"sixers", "Philadelphia 76ers">>,
       <<"76ers", "Philadelphia 76ers">>, <<"bucks", "Milwaukee Bucks">>,
       <<"suns", "Phoenix Suns">>, <<"mavs", "Dallas Mavericks">>,
       <<"mavericks", "Dallas Mavericks">>, <<"clippers", "LA Clippers">>,
       <<"nuggets", "Denver Nuggets">>, <<"grizzlies", "Memphis Grizzlies">>,
       <<"kings", "Sacramento Kings">>, <<"hawks", "Atlanta Hawks">>,
       <<"chiefs", "Kansas City Chiefs">>, <<"eagles", "Philadelphia Eagles">>,
       <<"cowboys", "Dallas Cowboys">>, <<"49ers", "San Francisco 49ers">>,
       <<"bills", "Buffalo Bills">>, <<"ravens", "Baltimore Ravens">>,
       <<"bengals", "Cincinnati Bengals">>, <<"lions", "Detroit Lions">>,
       <<"packers", "Green Bay Packers">>, <<"dolphins", "Miami Dolphins">>,
       <<"jets", "New York Jets">>, <<"patriots", "New England Patriots">> >>

SPORT_KEYWORDS ==
    << [sport |-> "NBA", keywords |->
          <<"lakers", "celtics", "warriors", "nets", "knicks", "heat", "bulls",
            "cavs", "cavaliers", "sixers", "76ers", "bucks", "suns", "mavs",
            "mavericks", "clippers", "nuggets", "grizzlies", "kings", "hawks",
            "rebounds", "assists", "points", "pts", "reb", "ast", "3pm">>],
       [sport |-> "NFL", keywords |->
          <<"chiefs", "eagles", "cowboys", "49ers", "bills", "ravens", "bengals",
            "lions", "packers", "dolphins", "jets", "patriots", "broncos", "raiders",
            "chargers", "steelers", "browns", "titans", "colts", "jaguars",
            "passing", "rushing", "yards", "touchdowns", "td">>],
       [sport |-> "MLB", keywords |->
          <<"yankees", "dodgers", "astros", "braves", "mets", "phillies", "padres",
            "mariners", "rangers", "orioles", "twins", "guardians", "rays", "cubs",
            "runs", "hits", "strikeouts", "era", "home runs", "hr">>],
       [sport |-> "NHL", keywords |->
          <<"bruins", "panthers", "rangers", "oilers", "avalanche", "stars",
            "hurricanes", "devils", "knights", "maple leafs", "canucks", "jets",
            "goals", "saves", "assists", "shots">>],
       [sport |-> "NCAAB", keywords |->
          <<"duke", "kentucky", "kansas", "unc", "north carolina", "gonzaga",
            "villanova", "ucla", "michigan", "purdue", "college basketball">>],
       [sport |-> "NCAAF", keywords |->
          <<"alabama", "georgia", "ohio state", "michigan", "clemson", "texas",
            "usc", "oregon", "lsu", "college football">>],
       [sport |-> "UFC", keywords |->
          <<"ufc", "mma", "fight", "knockout", "ko", "submission", "decision">>],
       [sport |-> "SOCCER", keywords |->
          <<"premier league", "epl", "la liga", "serie a", "bundesliga",
            "champions league", "soccer", "goal", "nil">>] >>

NoSport == "None"

\* the sport of the first entry of SPORT_KEYWORDS with a keyword in the text
SportOfKeywords_LastEntry(content_lower) ==
    LET hits == {i \in DOMAIN SPORT_KEYWORDS :
                    \E k \in DOMAIN SPORT_KEYWORDS[i].keywords :
                        Contains(content_lower, SPORT_KEYWORDS[i].keywords[k])}
    IN  IF hits = {} THEN NoSport
        ELSE SPORT_KEYWORDS[CHOOSE i \in hits : \A j \in hits : j <= i].sport

SportOfKeywords(content_lower) ==
    LET hits == {i \in DOMAIN SPORT_KEYWORDS :
                    \E k \in DOMAIN SPORT_KEYWORDS[i].keywords :
                        Contains(content_lower, SPORT_KEYWORDS[i].keywords[k])}
    IN  IF hits = {} THEN NoSport ELSE SPORT_KEYWORDS[SetMin(hits)].sport

SportsResults_detect_sport(content) == SportOfKeywords(Lower(content))

\* a game of the scoreboard, as _parse_game builds it
Game(home, home_score, away, away_score, completed) ==
    [home_team |-> [name |-> home, score |-> home_score],
     away_team |-> [name |-> away, score |-> away_score],
     completed |-> completed,
     status_detail |-> IF completed THEN "Final" ELSE "In Progress",
     total_score |-> home_score + away_score]

NoGame == [home_team |-> "None"]

Matchups ==
    { <<"Los Angeles Lakers", "Boston Celtics">>, <<"New York Knicks", "Brooklyn Nets">> }

Scores == {100, 110}

Games ==
    {Game(t[1], h, t[2], a, c) : t \in Matchups, h \in Scores, a \in Scores, c \in BOOLEAN}

TeamsOf(game) == {game.home_team.name, game.away_team.name}

\* the scoreboards of a day: no team plays twice
Scoreboards ==
    {listed \in UNION {[1..n -> Games] : n \in 0..MaxGames} :
        \A i, j \in DOMAIN listed : i # j => TeamsOf(listed[i]) \cap TeamsOf(listed[j]) = {}}

\* get_scoreboard: the games the provider lists, for a sport it covers
get_scoreboard(sport, listed) == IF sport \in sport_leagues THEN listed ELSE <<>>

\* the alias, or the full name, is in the name of one of the two sides
GameHasTeam(game, a) ==
    LET home == Lower(game.home_team.name)
        away == Lower(game.away_team.name)
    IN  \/ Contains(home, team_aliases[a][1])
        \/ Contains(away, team_aliases[a][1])
        \/ Contains(home, Lower(team_aliases[a][2]))
        \/ Contains(away, Lower(team_aliases[a][2]))

\* the first game of the first alias of the pick that has a game
find_game_for_pick(pick_content, listed) ==
    LET pick_lower == Lower(pick_content)
        sport == SportsResults_detect_sport(pick_content)
        games == get_scoreboard(sport, listed)
        named == {a \in DOMAIN team_aliases : Contains(pick_lower, team_aliases[a][1])}
        found == {a \in named : \E g \in DOMAIN games : GameHasTeam(games[g], a)}
    IN  IF sport = NoSport \/ found = {}
        THEN NoGame
        ELSE LET a == SetMin(found)
             IN  games[SetMin({g \in DOMAIN games : GameHasTeam(games[g], a)})]

Pending(pick_content, confidence, reason) ==
    [pick |-> pick_content, graded |-> FALSE, result |-> "PENDING",
     confidence |-> confidence, reason |-> reason]

Graded(pick_content, result, reason, game) ==
    [pick |-> pick_content, graded |-> TRUE, result |-> result,
     confidence |-> "high", reason |-> reason, game |-> game]

\* the loop over team_aliases.items() breaks at the first alias in the text
matched_alias_Last(named) ==
    team_aliases[CHOOSE a \in named : \A b \in named : b <= a][1]
matched_alias(named) == team_aliases[SetMin(named)][1]

grade_moneyline(pick_content, game) ==
    LET pick_lower == Lower(pick_content)
        home_team == game.home_team
        away_team == game.away_team
        named == {a \in DOMAIN team_aliases : Contains(pick_lower, team_aliases[a][1])}
        alias == IF named = {} THEN "" ELSE matched_alias(named)
        picked_home == named # {} /\ Contains(Lower(home_team.name), alias)
        picked_away == named # {} /\ ~picked_home /\ Contains(Lower(away_team.name), alias)
        home_won == home_team.score > away_team.score
        final == "Final: " \o home_team.name \o " " \o ToString(home_team.score)
                   \o " - " \o away_team.name \o " " \o ToString(away_team.score)
    IN  IF ~picked_home /\ ~picked_away
        THEN Pending(pick_content, "low", "Could not determine which team was picked")
        ELSE IF (picked_home /\ home_won) \/ (picked_away /\ ~home_won)
        THEN Graded(pick_content, "WIN", final, game)
        ELSE Graded(pick_content, "LOSS", final, game)

RECURSIVE SkipSpaces(_, _)
SkipSpaces(s, i) ==
    IF i <= Len(s) /\ IsSpace(CharAt(s, i)) THEN SkipSpaces(s, i + 1) ELSE i

\* the end of the run of digits that starts at i (i - 1 when there is none)
RECURSIVE DigitsEnd(_, _)
DigitsEnd(s, i) ==
    IF i <= Len(s) /\ IsDigit(CharAt(s, i)) THEN DigitsEnd(s, i + 1) ELSE i - 1

StartsAt(s, i, word) ==
    i + Len(word) - 1 <= Len(s) /\ SubSeq(s, i, i + Len(word) - 1) = word

DigitValue(c) ==
    CASE c = "0" -> 0 [] c = "1" -> 1 [] c = "2" -> 2 [] c = "3" -> 3 [] c = "4" -> 4
      [] c = "5" -> 5 [] c = "6" -> 6 [] c = "7" -> 7 [] c = "8" -> 8 [] c = "9" -> 9

RECURSIVE NatOf(_)
NatOf(digits) ==
    IF digits = "" THEN 0
    ELSE 10 * NatOf(SubSeq(digits, 1, Len(digits) - 1)) + DigitValue(CharAt(digits, Len(digits)))

RECURSIVE Pow10(_)
Pow10(k) == IF k = 0 THEN 1 ELSE 10 * Pow10(k - 1)

\* re.search(r'(over|under)\s*(\d+\.?\d*)', s): the leftmost match, or none;
\* the number is kept as num / 10^scale
TotalMatchAt(s, i) ==
    LET word == IF StartsAt(s, i, "over") THEN "over"
                ELSE IF StartsAt(s, i, "under") THEN "under" ELSE ""
        d == SkipSpaces(s, i + Len(word))
    IN  word # "" /\ d <= Len(s) /\ IsDigit(CharAt(s, d))

NoMatch == [direction |-> "None"]

total_match(s) ==
    LET at == {i \in 1..Len(s) : TotalMatchAt(s, i)}
    IN  IF at = {} THEN NoMatch
        ELSE LET i == SetMin(at)
                 word == IF StartsAt(s, i, "over") THEN "over" ELSE "under"
                 d == SkipSpaces(s, i + Len(word))
                 e == DigitsEnd(s, d)
                 dot == e + 1 <= Len(s) /\ CharAt(s, e + 1) = "."
                 f == IF dot THEN DigitsEnd(s, e + 2) ELSE e
                 frac == IF dot THEN SubSeq(s, e + 2, f) ELSE ""
             IN  [direction |-> word,
                  num |-> NatOf(SubSeq(s, d, e) \o frac),
                  scale |-> Len(frac)]

\* str(float): the fraction without its trailing zeros, ".0" for a whole number
RECURSIVE FractionDigits(_, _)
FractionDigits(n, k) ==
    IF n = 0 \/ k = 0 THEN ""
    ELSE ToString(n \div Pow10(k - 1)) \o FractionDigits(n % Pow10(k - 1), k - 1)

FloatStr(line) ==
    LET whole == line.num \div Pow10(line.scale)
        digits == FractionDigits(line.num % Pow10(line.scale), line.scale)
    IN  ToString(whole) \o "." \o (IF digits = "" THEN "0" ELSE digits)

won(bet_direction, actual_total, bet_line) ==
    IF bet_direction = "over"
    THEN actual_total * Pow10(bet_line.scale) > bet_line.num
    ELSE actual_total * Pow10(bet_line.scale) < bet_line.num

is_push_Never(actual_total, bet_line) == FALSE
is_push(actual_total, bet_line) == actual_total * Pow10(bet_line.scale) = bet_line.num

grade_total(pick_content, game) ==
    LET m == total_match(Lower(pick_content))
        actual_total == game.total_score
        reason == "Total: " \o ToString(actual_total) \o " (Line: " \o FloatStr(m) \o ")"
    IN  IF m = NoMatch
        THEN Pending(pick_content, "low", "Could not extract total line")
        ELSE IF is_push(actual_total, m)
        THEN Graded(pick_content, "PUSH", reason, game)
        ELSE Graded(pick_content,
                    IF won(m.direction, actual_total, m) THEN "WIN" ELSE "LOSS",
                    reason, game)

grade_spread_AsGraded(pick_content, game) ==
    [pick |-> pick_content, graded |-> TRUE, result |-> "PENDING",
     confidence |-> "medium", reason |-> "Spread bets require manual verification"]
grade_spread(pick_content, game) ==
    Pending(pick_content, "medium", "Spread bets require manual verification")

\* re.search(r'[+-]\d+\.?\d*', s)
HasSignedNumber(s) ==
    \E i \in 1..(Len(s) - 1) : CharAt(s, i) \in {"+", "-"} /\ IsDigit(CharAt(s, i + 1))

\* the tests of grade_pick, lines 209-222, in their order
bet_type_TotalFirst(pick_content) ==
    IF Contains(Lower(pick_content), "over") \/ Contains(Lower(pick_content), "under")
    THEN "total"
    ELSE IF Contains(Lower(pick_content), "ml") \/ Contains(Lower(pick_content), "moneyline")
    THEN "moneyline"
    ELSE IF HasSignedNumber(pick_content) THEN "spread"
    ELSE "unknown"
bet_type(pick_content) ==
    IF Contains(Lower(pick_content), "ml") \/ Contains(Lower(pick_content), "moneyline")
    THEN "moneyline"
    ELSE IF Contains(Lower(pick_content), "over") \/ Contains(Lower(pick_content), "under")
    THEN "total"
    ELSE IF HasSignedNumber(pick_content) THEN "spread"
    ELSE "unknown"

\* "if not game.get('completed')"
NotCompleted_Never(game) == FALSE
NotCompleted(game) == ~game.completed

grade_pick(pick_content, given, listed) ==
    LET game == IF given = NoGame THEN find_game_for_pick(pick_content, listed) ELSE given
    IN  IF game = NoGame
        THEN Pending(pick_content, "low", "Could not find matching game")
        ELSE IF NotCompleted(game)
        THEN Pending(pick_content, "low", "Game status: " \o game.status_detail)
        ELSE CASE bet_type(pick_content) = "moneyline" -> grade_moneyline(pick_content, game)
               [] bet_type(pick_content) = "total" -> grade_total(pick_content, game)
               [] bet_type(pick_content) = "spread" -> grade_spread(pick_content, game)
               [] OTHER -> Pending(pick_content, "low", "Could not determine bet type")

(* The picks graded: a text, and beside it what the text was written to    *)
(* say, which the grader does not see: the team backed, and the direction  *)
(* and the line (in tenths of a point) of a total.                         *)

BetOf(content, team, direction, tenths) ==
    [content |-> content, team |-> team, direction |-> direction, tenths |-> tenths]

LineText(tenths) ==
    ToString(tenths \div 10) \o (IF tenths % 10 = 0 THEN "" ELSE "." \o ToString(tenths % 10))

Lines == {2100, 2155, 2200}

TotalBets ==
    {BetOf("Lakers OVER " \o LineText(l), "None", "over", l) : l \in Lines}
    \cup {BetOf("Celtics under" \o LineText(l), "None", "under", l) : l \in Lines}

MoneylineBets ==
    {BetOf("Lakers ML", "Los Angeles Lakers", "None", 0),
     BetOf("Celtics ML -150", "Boston Celtics", "None", 0),
     BetOf("Knicks moneyline", "New York Knicks", "None", 0),
     BetOf("Lakers ML over 220", "Los Angeles Lakers", "None", 0),
     BetOf("Lakers and Knicks ML", "None", "None", 0),
     BetOf("Celtics ML vs Lakers", "None", "None", 0),
     BetOf("Nets ML, fade Knicks", "None", "None", 0),
     BetOf("Yankees ML", "None", "None", 0)}

OtherBets ==
    {BetOf("Lakers Over/Under TBD", "None", "None", 0),
     BetOf("Celtics under -3", "None", "None", 0),
     BetOf("Lakers -5.5", "None", "None", 0),
     BetOf("Lakers to win", "None", "None", 0),
     BetOf("Over 220", "None", "over", 2200)}

Bets == TotalBets \cup MoneylineBets \cup OtherBets

InitGrade ==
    /\ ledgerFile = LedgerMissing
    /\ added = <<>>
    /\ diskFaulty = FALSE
    /\ sinceGet = {}
    /\ lastCall = NoCall
    /\ channel = <<>>
    /\ NoProcess
    /\ \E bet \in Bets, given \in Games \cup {NoGame}, listed \in Scoreboards :
          /\ given # NoGame => listed = <<>>
          /\ input = [fn |-> "grade_pick", bet |-> bet, game |-> given, listed |-> listed]
    /\ output = NoOutput

GradePick ==
    /\ input.fn = "grade_pick"
    /\ output = NoOutput
    /\ output' = [fn |-> "grade_pick",
                  ret |-> grade_pick(input.bet.content, input.game, input.listed)]
    /\ UNCHANGED <<ledgerVars, runVars, input>>

NextGrade == GradePick

SpecGrade == InitGrade /\ [][NextGrade]_vars

---------------------------------------------------------------------------
(* Claims about the grader.                                                *)

GradeReturned == output.fn = "grade_pick"

\* the game grade_pick grades against: the one given, else the one found
MatchedGame ==
    IF input.game = NoGame
    THEN find_game_for_pick(input.bet.content, input.listed)
    ELSE input.game

ContentLower == Lower(input.bet.content)

SaysMoneyline == Contains(ContentLower, "ml") \/ Contains(ContentLower, "moneyline")

SaysTotal == Contains(ContentLower, "over") \/ Contains(ContentLower, "under")

StartsWith(s, prefix) == StartsAt(s, 1, prefix)

\* C6: a result with graded = true is WIN, LOSS or PUSH, and a PENDING
\* result has graded = false.
C6_GradedIffDecided ==
    GradeReturned =>
        /\ output.ret.graded => output.ret.result \in {"WIN", "LOSS", "PUSH"}
        /\ output.ret.result = "PENDING" => ~output.ret.graded

C6_Witness ==
    /\ GradeReturned
    /\ bet_type(input.bet.content) = "spread"
    /\ MatchedGame # NoGame /\ MatchedGame.completed
    /\ output.ret.result = "PENDING"

\* C7: a moneyline pick on a completed game one of whose sides is the team
\* backed is a WIN exactly when that side scored strictly more than the
\* other, and a LOSS otherwise, ties included.
C7_MoneylineStrictWin ==
    (/\ GradeReturned
     /\ SaysMoneyline
     /\ MatchedGame # NoGame /\ MatchedGame.completed
     /\ input.bet.team \in {MatchedGame.home_team.name, MatchedGame.away_team.name})
    => LET g == MatchedGame
           mine == IF input.bet.team = g.home_team.name THEN g.home_team.score
                   ELSE g.away_team.score
           theirs == IF input.bet.team = g.home_team.name THEN g.away_team.score
                     ELSE g.home_team.score
       IN  output.ret.result = IF mine > theirs THEN "WIN" ELSE "LOSS"

\* C8 as stated: every pick with 'over' or 'under' in its text that reaches
\* total grading on a completed game is graded, with confidence high.
C8_TotalAlwaysGraded ==
    (/\ GradeReturned
     /\ ~SaysMoneyline /\ SaysTotal
     /\ MatchedGame # NoGame /\ MatchedGame.completed)
    => /\ output.ret.graded
       /\ output.ret.confidence = "high"
       /\ output.ret.result \in {"WIN", "LOSS", "PUSH"}

\* C8: a pick that reaches total grading on a completed game and names a
\* direction followed by a numeric line is PUSH when the total equals the
\* line, WIN when it is over with total > line or under with total < line,
\* LOSS otherwise, each with graded = true and confidence high; a pick in
\* which no number follows 'over' or 'under' is PENDING, graded = false,
\* confidence low.
C8_TotalGrading ==
    (/\ GradeReturned
     /\ ~SaysMoneyline /\ SaysTotal
     /\ MatchedGame # NoGame /\ MatchedGame.completed)
    => LET total == 10 * MatchedGame.total_score
           line == input.bet.tenths
           dir == input.bet.direction
       IN  IF dir = "None"
           THEN /\ output.ret.result = "PENDING"
                /\ ~output.ret.graded
                /\ output.ret.confidence = "low"
           ELSE /\ output.ret.graded
                /\ output.ret.confidence = "high"
                /\ output.ret.result =
                      IF total = line THEN "PUSH"
                      ELSE IF (dir = "over" /\ total > line) \/ (dir = "under" /\ total < line)
                      THEN "WIN"
                      ELSE "LOSS"

C8_Witness ==
    /\ GradeReturned
    /\ input.bet.direction = "under"
    /\ MatchedGame # NoGame /\ MatchedGame.completed
    /\ 10 * MatchedGame.total_score = input.bet.tenths
    /\ output.ret.result = "PUSH"

\* which grader a result comes from, by its reason
FromMoneyline(r) ==
    \/ StartsWith(r.reason, "Final: ")
    \/ r.reason = "Could not determine which team was picked"

FromTotal(r) ==
    \/ StartsWith(r.reason, "Total: ")
    \/ r.reason = "Could not extract total line"

FromSpread(r) ==
    /\ r.reason = "Spread bets require manual verification"
    /\ r.result = "PENDING" /\ ~r.graded /\ r.confidence = "medium"

FromNone(r) ==
    /\ r.reason = "Could not determine bet type"
    /\ r.result = "PENDING" /\ ~r.graded

\* C9: on a matched, completed game the grader is chosen by the text: 'ml'
\* or 'moneyline' gives moneyline grading; else 'over' or 'under' gives
\* total grading; else a signed number gives spread grading, which is
\* PENDING, graded = false, confidence medium, with the manual-verification
\* reason; else PENDING with the reason that the bet type is undetermined.
C9_GraderPrecedence ==
    (GradeReturned /\ MatchedGame # NoGame /\ MatchedGame.completed)
    => IF SaysMoneyline THEN FromMoneyline(output.ret)
       ELSE IF SaysTotal THEN FromTotal(output.ret)
       ELSE IF HasSignedNumber(input.bet.content) THEN FromSpread(output.ret)
       ELSE FromNone(output.ret)

C9_Witness ==
    /\ GradeReturned
    /\ MatchedGame # NoGame /\ MatchedGame.completed
    /\ SaysMoneyline /\ SaysTotal
    /\ FromMoneyline(output.ret)
    /\ output.ret.result = "WIN"

\* C10: when no game is matched for the pick, or the matched game is not
\* completed, the result is PENDING with graded = false, whatever the bet
\* type and the scores.
C10_PendingWithoutFinal ==
    (GradeReturned /\ (MatchedGame = NoGame \/ ~MatchedGame.completed))
    => /\ output.ret.result = "PENDING"
       /\ ~output.ret.graded

C10_Witness ==
    /\ GradeReturned
    /\ input.game = NoGame /\ MatchedGame # NoGame
    /\ ~MatchedGame.completed
    /\ MatchedGame.home_team.score > MatchedGame.away_team.score
    /\ SaysMoneyline
    /\ output.ret.result = "PENDING"

---------------------------------------------------------------------------
(* The tweet composer (src/src/ai_writer.py).  A text argument that is     *)
(* None is written "": format_tweet tests its arguments for truth only,    *)
(* and None and "" are both false.                                         *)

LongWords == 60     \* the number of words of the long texts of the model

TWEET_LIMIT == 280
FALLBACK_LEN == 150
MIN_PICK_LEN == 10
MIN_AI_LEN == 20

DISCORD_INVITE_LINK == "discord.gg/ZNwbqrCGqN"
WEBSITE_URL == "https://sussweatshop.com"

HASHTAGS ==
    [NBA |-> "#NBA #NBABets #NBAPicks #NBATwitter #Basketball",
     NFL |-> "#NFL #NFLBets #NFLPicks #NFLTwitter #Football",
     MLB |-> "#MLB #MLBBets #MLBPicks #MLBTwitter #Baseball",
     NHL |-> "#NHL #NHLBets #NHLPicks #NHLTwitter #Hockey",
     NCAAB |-> "#NCAAB #CollegeBasketball #CBB #MarchMadness",
     NCAAF |-> "#NCAAF #CollegeFootball #CFB #CFBPicks",
     UFC |-> "#UFC #MMA #UFCPicks #UFCBets",
     SOCCER |-> "#Soccer #Football #EPL #LaLiga #SoccerPicks",
     default |-> "#SportsBetting #FreePicks #GamblingTwitter #Betting #Winners"]

VIRAL_HASHTAGS ==
    <<"#BettingTwitter", "#SportsBetting", "#FreePicks", "#GamblingX", "#BettingPicks",
      "#FadeOrTail", "#LockOfTheDay", "#POTD", "#Parlay", "#Winners">>

\* the admission-ticket emoji before the slip link is two code points
\* (U+1F39F U+FE0F); two ASCII characters stand for them
TICKET == "[]"

Max(a, b) == IF a >= b THEN a ELSE b

SetMax(S) == CHOOSE x \in S : \A y \in S : y <= x

\* s[:n] of Python, n negative included
PySliceTo(s, n) ==
    IF n >= 0 THEN SubSeq(s, 1, Min(n, Len(s)))
    ELSE SubSeq(s, 1, Max(0, Len(s) + n))

\* the characters of s at the places in keep, from lo to hi; a white-space
\* character is written as a blank when blank is TRUE
RECURSIVE KeepChars(_, _, _, _, _)
KeepChars(s, keep, blank, lo, hi) ==
    IF lo > hi THEN ""
    ELSE IF lo = hi
    THEN (IF lo \in keep
          THEN (IF blank /\ IsSpace(CharAt(s, lo)) THEN " " ELSE CharAt(s, lo))
          ELSE "")
    ELSE LET mid == (lo + hi) \div 2
         IN  KeepChars(s, keep, blank, lo, mid) \o KeepChars(s, keep, blank, mid + 1, hi)

UrlStartsAt(s, j) ==
    LET n == IF StartsAt(s, j, "http://") THEN 7
             ELSE IF StartsAt(s, j, "https://") THEN 8 ELSE 0
    IN  n > 0 /\ j + n <= Len(s) /\ ~IsSpace(CharAt(s, j + n))

\* re.sub(r'https?://\S+', '', s)
RemoveUrls(s) ==
    LET starts == {j \in 1..Len(s) : UrlStartsAt(s, j)}
        gone == {i \in 1..Len(s) :
                    \E j \in starts : j <= i /\ \A k \in j..i : ~IsSpace(CharAt(s, k))}
    IN  IF starts = {} THEN s ELSE KeepChars(s, (1..Len(s)) \ gone, FALSE, 1, Len(s))

WordChars ==
    LET w == "abcdefghijklmnopqrstuvwxyzABCDEFGHIJKLMNOPQRSTUVWXYZ0123456789_"
    IN  {CharAt(w, i) : i \in 1..Len(w)}

\* re.sub(r'#\w+', '', s)
RemoveHashtags(s) ==
    LET starts == {j \in 1..(Len(s) - 1) : CharAt(s, j) = "#" /\ CharAt(s, j + 1) \in WordChars}
        gone == {i \in 1..Len(s) :
                    \E j \in starts : j <= i /\ \A k \in (j + 1)..i : CharAt(s, k) \in WordChars}
    IN  IF starts = {} THEN s ELSE KeepChars(s, (1..Len(s)) \ gone, FALSE, 1, Len(s))

\* ' '.join(s.split())
NormalizeSpaces(s) ==
    LET inked == {i \in 1..Len(s) : ~IsSpace(CharAt(s, i))}
        last == IF inked = {} THEN 0 ELSE SetMax(inked)
        keep == inked \cup {i \in 2..Len(s) : i \notin inked /\ (i - 1) \in inked /\ i < last}
    IN  KeepChars(s, keep, TRUE, 1, Len(s))

\* s.split()
RECURSIVE Words(_)
Words(s) ==
    LET t == LStrip(s)
        blanks == {i \in 1..Len(t) : IsSpace(CharAt(t, i))}
        e == IF blanks = {} THEN Len(t) + 1 ELSE SetMin(blanks)
    IN  IF t = "" THEN <<>>
        ELSE <<SubSeq(t, 1, e - 1)>> \o Words(SubSeq(t, e, Len(t)))

\* sep.join(parts)
RECURSIVE Join(_, _)
Join(parts, sep) ==
    IF parts = <<>> THEN ""
    ELSE IF Len(parts) = 1 THEN parts[1]
    ELSE parts[1] \o sep \o Join(Tail(parts), sep)

RECURSIVE Repeat(_, _)
Repeat(s, n) == IF n = 0 THEN "" ELSE s \o Repeat(s, n - 1)

EndsWith(s, suffix) ==
    Len(s) >= Len(suffix) /\ SubSeq(s, Len(s) - Len(suffix) + 1, Len(s)) = suffix

\* what a call of the Gemini model gives: a text, or an exception
AiOutcomes ==
    {[raised |-> TRUE, text |-> ""],
     [raised |-> FALSE, text |-> " Nice. "],
     [raised |-> FALSE, text |-> "Really like Tatum over 27.5 tonight. #NBA https://t.co/x"],
     [raised |-> FALSE, text |-> Repeat("Sharp money. ", LongWords)]}

SlipInfo(sport, player, team, line, raw) ==
    [sport |-> sport, player |-> player, team |-> team, bet_type |-> "", line |-> line,
     odds |-> "", raw |-> raw]

\* slip_info = None
NoSlipInfo == SlipInfo("", "", "", "", "")

\* what analyze_slip_image returns: the fields it parsed, or the record of
\* its except clause
VisionOutcomes ==
    {SlipInfo("NBA", "Jayson Tatum", "Celtics", "OVER 27.5 Points", "SPORT: NBA"),
     SlipInfo("default", "", "Chiefs", "", "TEAM: Chiefs"),
     SlipInfo("default", "", "", "", "cannot identify image file")}

slip_openers ==
    {"Really like", "Going with", "Taking", "Feeling good about", "Riding with"}

slip_closers ==
    {"Let's see how it plays out.", "Like the value here.",
     "Numbers look good on this one.", "Feeling confident about this.", ""}

fallback_from_slip(slip_info, opener, closer) ==
    LET pick_parts == (IF slip_info.player # "" THEN <<slip_info.player>> ELSE <<>>)
                      \o (IF slip_info.line # "" THEN <<slip_info.line>>
                          ELSE IF slip_info.team # "" THEN <<slip_info.team>> ELSE <<>>)
        pick_text == IF pick_parts # <<>> THEN Join(pick_parts, " ") ELSE "this play"
    IN  IF closer # ""
        THEN opener \o " " \o pick_text \o ". " \o closer
        ELSE opener \o " " \o pick_text \o " tonight."

generate_tweet_from_slip(slip_info, ai, opener, closer) ==
    LET result == NormalizeSpaces(RemoveUrls(RemoveHashtags(Strip(ai.text))))
    IN  IF ai.raised \/ Len(result) < MIN_AI_LEN
        THEN fallback_from_slip(slip_info, opener, closer)
        ELSE result

AiWriter_detect_sport(pick) ==
    LET sport == SportOfKeywords(Lower(pick))
    IN  IF sport = NoSport THEN "default" ELSE sport

clean_pick_content(pick) == Strip(NormalizeSpaces(RemoveUrls(pick)))

openers == {"Like this one today -", "Going with", "Taking", "Playing", "Riding"}

closers ==
    {"Let's see how it goes.", "Like what I'm seeing here.", "Good spot for this.",
     "Value looks right.", ""}

NothingToSay == "Got one I like today. Check out the slip."

fallback_analysis(pick, opener, closer) ==
    LET clean_pick == clean_pick_content(pick)
    IN  IF clean_pick # "" /\ Len(clean_pick) > 5
        THEN (IF closer # ""
              THEN opener \o " " \o clean_pick \o ". " \o closer
              ELSE opener \o " " \o clean_pick \o ".")
        ELSE NothingToSay

generate_analysis(pick, ai, opener, closer) ==
    IF Len(clean_pick_content(pick)) < MIN_PICK_LEN \/ ai.raised
          \/ Len(Strip(ai.text)) < MIN_AI_LEN
    THEN fallback_analysis(pick, opener, closer)
    ELSE Strip(ai.text)

\* get_hashtags; viral is the tag random.choice drew, "" when
\* random.random() was not above 0.5
get_hashtags(sport, viral) ==
    LET sport_tags == Words(IF sport \in DOMAIN HASHTAGS THEN HASHTAGS[sport]
                            ELSE HASHTAGS["default"])
        two == FirstN(sport_tags, 2)
        selected_tags == IF viral # "" /\ Lower(viral) \notin {Lower(two[i]) : i \in DOMAIN two}
                         THEN Append(two, viral) ELSE two
    IN  Join(FirstN(selected_tags, 3), " ")

HashtagChoices(sport) ==
    {get_hashtags(sport, viral) : viral \in {""} \cup Range(VIRAL_HASHTAGS)}

\* get_promo_text draws one of these
promos ==
    {"More picks: " \o DISCORD_INVITE_LINK, "Free daily picks: " \o DISCORD_INVITE_LINK,
     "Join for more: " \o DISCORD_INVITE_LINK, WEBSITE_URL,
     "All picks: " \o DISCORD_INVITE_LINK}

\* _trim_tweet lines 362-367: the characters kept for all but the analysis
short_hashtags == "#SportsBetting #FreePicks"
short_promo == DISCORD_INVITE_LINK
reserved(slip_link) ==
    Len(short_promo) + Len(short_hashtags) + 6
      + (IF slip_link # "" THEN Len(slip_link) + 5 ELSE 0)

\* _trim_tweet line 383, "if len(tweet) > 280": the fallback, which leaves
\* the slip link out
falls_back_Always(tweet) == TRUE
falls_back(tweet) == Len(tweet) > TWEET_LIMIT

trim_tweet(analysis, promo, hashtags, slip_link) ==
    LET max_analysis_len == TWEET_LIMIT - reserved(slip_link)
        cut == PySliceTo(analysis, max_analysis_len)
        blanks == {i \in 1..Len(cut) : CharAt(cut, i) = " "}
        whole == IF blanks = {} THEN cut ELSE SubSeq(cut, 1, SetMax(blanks) - 1)
        ended == IF EndsWith(whole, "!") \/ EndsWith(whole, ".") \/ EndsWith(whole, "?")
                 THEN whole ELSE whole \o "..."
        trimmed == IF Len(analysis) > max_analysis_len THEN ended ELSE analysis
        tail == "\n\n" \o short_promo \o "\n\n" \o short_hashtags
        tweet == IF slip_link # ""
                 THEN trimmed \o "\n\n" \o slip_link \o tail
                 ELSE trimmed \o tail
    IN  PySliceTo(IF falls_back(tweet)
                  THEN PySliceTo(trimmed, FALLBACK_LEN) \o "..." \o tail
                  ELSE tweet,
                  TWEET_LIMIT)

\* "if len(tweet) > 280"
needs_trim_Never(tweet) == FALSE
needs_trim(tweet) == Len(tweet) > TWEET_LIMIT

\* format_tweet from the analysis on: lines 339-358
format_tweet(analysis, slip_link, promo, hashtags) ==
    LET tweet_parts == <<analysis>>
                       \o (IF slip_link # "" THEN <<"", TICKET \o " " \o slip_link>> ELSE <<>>)
                       \o <<"", promo, "", hashtags>>
        tweet == Join(tweet_parts, "\n")
    IN  IF needs_trim(tweet) THEN trim_tweet(analysis, promo, hashtags, slip_link) ELSE tweet

PickTexts == {"", "hi", "Lakers ML -150  https://x.co/a "}

AnalysisTexts ==
    {"", "Taking the Chiefs -3 here.", Repeat("word ", LongWords),
     Repeat("xxxxx", LongWords), Repeat("Yes! ", LongWords),
     Repeat("winner ", LongWords)}

\* the longest link that the reserve of _trim_tweet leaves room for
LongestFittingLink ==
    SubSeq("https://pp.co/" \o Repeat("abcde", LongWords), 1, TWEET_LIMIT - reserved("/") + 1)

SlipLinks ==
    {"", "https://prizepicks.com/s/abc", "https://pp.co/" \o Repeat("abcde", LongWords),
     LongestFittingLink}

InitTweet ==
    /\ ledgerFile = LedgerMissing
    /\ added = <<>>
    /\ diskFaulty = FALSE
    /\ sinceGet = {}
    /\ lastCall = NoCall
    /\ channel = <<>>
    /\ NoProcess
    /\ input \in [fn : {"format_tweet"}, pick : PickTexts, analysis : AnalysisTexts,
                  slip_link : SlipLinks, slip_image_path : BOOLEAN,
                  slip_info : {NoSlipInfo} \cup VisionOutcomes]
    /\ output = NoOutput

\* format_tweet lines 319-321: the slip image is analysed when no
\* slip_info came with the call
SlipInfoChoices ==
    IF input.slip_image_path /\ input.slip_info = NoSlipInfo
    THEN VisionOutcomes
    ELSE {input.slip_info}

\* format_tweet lines 323-337: the analysis, and the sport of the hashtags
AnalysisChoices(slip_info) ==
    IF slip_info # NoSlipInfo
    THEN (IF input.analysis = ""
          THEN {generate_tweet_from_slip(slip_info, ai, o, c) :
                    ai \in AiOutcomes, o \in slip_openers, c \in slip_closers}
          ELSE {input.analysis})
    ELSE IF input.pick # "" /\ input.analysis = ""
    THEN {generate_analysis(input.pick, ai, o, c) :
              ai \in AiOutcomes, o \in openers, c \in closers}
    ELSE IF input.analysis = "" THEN {NothingToSay}
    ELSE {input.analysis}

SportChoice(slip_info) ==
    IF slip_info # NoSlipInfo THEN slip_info.sport
    ELSE IF input.pick # "" /\ input.analysis = "" THEN AiWriter_detect_sport(input.pick)
    ELSE "default"

FormatTweet ==
    /\ input.fn = "format_tweet"
    /\ output = NoOutput
    /\ \E slip_info \in SlipInfoChoices :
         \E analysis \in AnalysisChoices(slip_info),
            hashtags \in HashtagChoices(SportChoice(slip_info)),
            promo \in promos :
              output' = [fn |-> "format_tweet",
                         analysis |-> analysis,
                         ret |-> format_tweet(analysis, input.slip_link, promo, hashtags)]
    /\ UNCHANGED <<ledgerVars, runVars, input>>

NextTweet == FormatTweet

SpecTweet == InitTweet /\ [][NextTweet]_vars

---------------------------------------------------------------------------
(* Claims about the tweet composer.                                        *)

\* C5: whatever the arguments, the AI texts and the random draws, the
\* string format_tweet returns is at most 280 characters long.
C5_TweetFits ==
    output.fn = "format_tweet" => Len(output.ret) <= 280

C5_Witness ==
    /\ output.fn = "format_tweet"
    /\ input.slip_link # ""
    /\ Len(output.analysis) > 280
    /\ Len(output.ret) > 270

---------------------------------------------------------------------------
(* The day's results (src/src/recap_generator.py).                         *)

MaxTodays == 2     \* the most picks of a day in the model

\* the counter a graded pick adds to: get_todays_results lines 64-71
counter_DropsPending(result) ==
    CASE result = "WIN" -> "wins"
      [] result = "LOSS" -> "losses"
      [] result = "PUSH" -> "pushes"
      [] OTHER -> "none"
counter(result) ==
    CASE result = "WIN" -> "wins"
      [] result = "LOSS" -> "losses"
      [] result = "PUSH" -> "pushes"
      [] OTHER -> "pending"

\* get_todays_results on the picks get_todays_picks_for_recap returned,
\* every pick graded against the scoreboard the provider lists
get_todays_results(todays, listed) ==
    LET grade == [i \in DOMAIN todays |-> grade_pick(todays[i].content, NoGame, listed)]
        count(c) == Cardinality({i \in DOMAIN todays : counter(grade[i].result) = c})
    IN  [picks |-> [i \in DOMAIN todays |->
                      [content |-> todays[i].content,
                       id |-> todays[i].id,
                       result |-> grade[i].result,
                       graded |-> grade[i].graded,
                       reason |-> grade[i].reason,
                       confidence |-> grade[i].confidence]],
         wins |-> count("wins"),
         losses |-> count("losses"),
         pushes |-> count("pushes"),
         pending |-> count("pending"),
         total_picks |-> Len(todays)]

TodaysContents ==
    {"Lakers ML", "Celtics ML -150", "Lakers OVER 210", "Celtics under215.5",
     "Lakers -5.5", "Over 220"}

\* the picks of a day, newest first, as extract_picks lists them
TodaysPicks ==
    UNION {{[i \in 1..n |-> [id |-> 200 - i, content |-> c[i]]] : c \in [1..n -> TodaysContents]} :
             n \in 0..MaxTodays}

TodaysScoreboards == {listed \in Scoreboards : Len(listed) <= 1}

InitResults ==
    /\ ledgerFile = LedgerMissing
    /\ added = <<>>
    /\ diskFaulty = FALSE
    /\ sinceGet = {}
    /\ lastCall = NoCall
    /\ channel = <<>>
    /\ NoProcess
    /\ input \in [fn : {"get_todays_results"}, picks : TodaysPicks,
                  listed : TodaysScoreboards]
    /\ output = NoOutput

\* get_todays_results, and the snapshot _save_results leaves in
\* daily_results.json: the results, or nothing when the write fails
GetTodaysResults ==
    /\ input.fn = "get_todays_results"
    /\ output = NoOutput
    /\ \E saved \in BOOLEAN :
          output' = [fn |-> "get_todays_results",
                     ret |-> get_todays_results(input.picks, input.listed),
                     saved |-> saved]
    /\ UNCHANGED <<ledgerVars, runVars, input>>

NextResults == GetTodaysResults

SpecResults == InitResults /\ [][NextResults]_vars

\* C11: in the results get_todays_results returns, wins + losses + pushes
\* + pending equals total_picks and equals the number of entries of picks.
C11_CountsAddUp ==
    output.fn = "get_todays_results" =>
        LET r == output.ret
        IN  /\ r.wins + r.losses + r.pushes + r.pending = r.total_picks
            /\ r.total_picks = Len(r.picks)
            /\ Len(r.picks) = Len(input.picks)

C11_Witness ==
    /\ output.fn = "get_todays_results"
    /\ output.ret.pending = 1
    /\ output.ret.wins = 1
    /\ output.ret.total_picks = 2

---------------------------------------------------------------------------
(* More claims about one process.                                          *)

\* C12: with the dry-run flag set no mode calls post_tweet (the one caller
\* of upload_media in a process; post_thread has no caller).
C12_DryRunNeverPosts ==
    args.dry_run => tweetCalls = 0 /\ postedOk = {}

C12_Witness ==
    /\ args.dry_run /\ Mode = "regular"
    /\ pc = "done"
    /\ successful = 2
    /\ tweetCalls = 0

LoopPicks == FirstN(picks, args.max_posts)

\* the loop of a regular run is over
LoopOver == Mode = "regular" /\ picks # <<>> /\ pc \in {"cleanup", "exit", "done"}

\* the picks of the loop that count as successful: posted, or rendered by a
\* dry run
Succeeded == {i \in DOMAIN handled : handled[i].how \in {"posted", "rendered"}}

\* C14: in a regular run an exception raised while pick i is processed is
\* caught: the picks are left one by one in list order, the pick being
\* processed is always the one after those already left, the loop ends only
\* when every pick of picks[:max_posts] was left, and the count the run
\* returns is the number of picks that were posted (or rendered, in a dry
\* run).
C14_ExceptionIsolated ==
    Mode = "regular" =>
        /\ Len(handled) <= Len(LoopPicks)
        /\ \A i \in DOMAIN handled : handled[i].id = LoopPicks[i].id
        /\ pc \in {"process", "post", "mark"} => idx = Len(handled) + 1
        /\ LoopOver => Len(handled) = Len(LoopPicks)
        /\ successful = Cardinality(Succeeded)
        /\ LoopOver /\ ~args.dry_run => successful = Cardinality(postedOk)

C14_Witness ==
    /\ LoopOver
    /\ Len(handled) = 2
    /\ handled[1].how = "raised"
    /\ handled[2].how = "posted"
    /\ successful = 1

----------------------------------------------------------------------------
(* Threads: TwitterPoster.post_thread (twitter_poster.py).                 *)

MaxThread == 3

\* Python's None
None == "None"

\* the id the API gives the tweet made by the i-th create_tweet call
TweetId(i) == "tweet" \o ToString(i)

\* what client.create_tweet can do: return the tweet, raise a
\* TweepyException, or raise another exception (the connection)
CreateOutcomes == {"tweet", "tweepy", "raise"}

\* zip(tweets, image_paths) stops with the shorter list
zip(tweets, image_paths) ==
    [i \in 1..Min(Len(tweets), Len(image_paths)) |->
        [text |-> tweets[i], image_path |-> image_paths[i]]]

\* the loop of post_thread from pair i on
RECURSIVE thread_loop(_, _, _, _, _, _)
thread_loop(pairs, i, responses, reply_to_id, calls, api) ==
    IF i > Len(pairs)
    THEN [raised |-> FALSE, ret |-> responses, calls |-> calls]
    ELSE LET media == pairs[i].image_path # None /\ api[i].uploaded
             call == [text |-> pairs[i].text, media |-> media,
                      in_reply_to_tweet_id |-> reply_to_id,
                      outcome |-> api[i].create]
             data == [id |-> TweetId(i), text |-> pairs[i].text]
         IN  CASE api[i].create = "tweet" ->
                    thread_loop(pairs, i + 1, Append(responses, data), data.id,
                                Append(calls, call), api)
               [] api[i].create = "tweepy" ->
                    [raised |-> FALSE, ret |-> responses, calls |-> Append(calls, call)]
               [] OTHER ->
                    [raised |-> TRUE, ret |-> <<>>, calls |-> Append(calls, call)]

\* post_thread(tweets, image_paths); api[i] is what the API does at pair i
post_thread(tweets, image_paths, api) ==
    LET paths == IF image_paths.is_none THEN [i \in 1..Len(tweets) |-> None]
                                       ELSE image_paths.list
    IN  thread_loop(zip(tweets, paths), 1, <<>>, None, <<>>, api)

ThreadTexts == {"Recap 1/2", "Recap 2/2"}
ThreadTweets == UNION {[1..n -> ThreadTexts] : n \in 0..MaxThread}
\* image_paths: None (the default), or a list of paths and None
ThreadImages ==
    {[is_none |-> TRUE, list |-> <<>>]} \cup
    {[is_none |-> FALSE, list |-> l] :
        l \in UNION {[1..n -> {None, "slip.png"}] : n \in 0..MaxThread}}

InitThread ==
    /\ ledgerFile = LedgerMissing
    /\ added = <<>>
    /\ diskFaulty = FALSE
    /\ sinceGet = {}
    /\ lastCall = NoCall
    /\ channel = <<>>
    /\ NoProcess
    /\ input \in [fn : {"post_thread"}, tweets : ThreadTweets, image_paths : ThreadImages]
    /\ output = NoOutput

PostThread ==
    /\ input.fn = "post_thread"
    /\ output = NoOutput
    /\ \E api \in [1..Len(input.tweets) -> [uploaded : BOOLEAN, create : CreateOutcomes]] :
          output' = [fn |-> "post_thread"] @@
                    post_thread(input.tweets, input.image_paths, api)
    /\ UNCHANGED <<ledgerVars, runVars, input>>

NextThread == PostThread

SpecThread == InitThread /\ [][NextThread]_vars

\* the create_tweet calls of the thread that returned a tweet
Posted == {i \in DOMAIN output.calls : output.calls[i].outcome = "tweet"}

\* C15: post_thread posts the texts in list order, each post after the
\* first as a reply to the preceding successful post; it stops at the first
\* failed post, and only there; it returns the list of the posts that
\* succeeded, in order.
C15_ThreadPrefix ==
    output.fn = "post_thread" =>
        LET calls == output.calls
            ret == output.ret
        IN  /\ ~output.raised
            /\ Len(calls) <= Len(input.tweets)
            /\ \A i \in DOMAIN calls :
                  /\ calls[i].text = input.tweets[i]
                  /\ calls[i].in_reply_to_tweet_id = IF i = 1 THEN None ELSE ret[i - 1].id
                  /\ calls[i].outcome # "tweet" => i = Len(calls)
            /\ Posted = DOMAIN calls => Len(calls) = Len(input.tweets)
            /\ Len(ret) = Cardinality(Posted)
            /\ \A i \in DOMAIN ret : ret[i].text = input.tweets[i]

\* C16: no regular, recap or daily-summary process ends with a downloaded
\* image that cleanup() has not removed: cleanup() has run after the last
\* download of the process.
C16_CleanupAfterLastDownload ==
    pc = "done" /\ Mode \in {"regular", "recap", "daily_summary"} => ~dirty

----------------------------------------------------------------------------
(* More claims about the dedup ledger.                                     *)

\* this step is a mark_as_posted call that repeats the call before it
MarksAgain ==
    /\ lastCall.op = "mark_as_posted"
    /\ lastCall'.op = "mark_as_posted"
    /\ lastCall'.pick_id = lastCall.pick_id
    /\ added' = Append(added, lastCall.pick_id)

\* C17: calling mark_as_posted(id) a second time, straight after the first,
\* leaves the ledger with the ids the first call left: the second call
\* evicts no id.
C17_MarkTwiceSameIds ==
    [][MarksAgain => Range(ledgerFile'.ids) = Range(ledgerFile.ids)]_vars

\* C18: a ledger file that is missing, unreadable or corrupt counts as an
\* empty ledger: neither get_unposted_picks nor mark_as_posted raises, and
\* get_unposted_picks returns the first `limit` of the picks extracted.
C18_DamagedLedgerIsEmpty ==
    /\ lastCall.op = "mark_as_posted" => ~lastCall.raised
    /\ lastCall.op = "get_unposted_picks" /\ ledgerFile.status # "ok" =>
          /\ ~lastCall.raised
          /\ lastCall.ret = FirstN(extract_picks(lastCall.messages), lastCall.limit)

----------------------------------------------------------------------------
(* extract_picks and _is_valid_pick called on messages of any text.        *)

MaxExtract == 2

ExtractContents ==
    {"", "  ", " \n\t", "gm", "Lakers ML -150", " +150 ", "\tparlay lock\n"}

\* the i-th message of a fetched list
ExtractMessage(i, content, bot) == [id |-> 300 + i, content |-> content, bot |-> bot]

ExtractLists ==
    UNION {{[i \in 1..n |-> ExtractMessage(i, c[i], b[i])] :
              c \in [1..n -> ExtractContents], b \in [1..n -> BOOLEAN]} :
           n \in 0..MaxExtract}

InitExtract ==
    /\ ledgerFile = LedgerMissing
    /\ added = <<>>
    /\ diskFaulty = FALSE
    /\ sinceGet = {}
    /\ lastCall = NoCall
    /\ channel = <<>>
    /\ NoProcess
    /\ input \in [fn : {"extract_picks"}, messages : ExtractLists]
    /\ output = NoOutput

ExtractPicks ==
    /\ input.fn = "extract_picks"
    /\ output = NoOutput
    /\ output' = [fn |-> "extract_picks", ret |-> extract_picks(input.messages)]
    /\ UNCHANGED <<ledgerVars, runVars, input>>

NextExtract == ExtractPicks

SpecExtract == InitExtract /\ [][NextExtract]_vars

\* a text of whitespace only, the empty text included
Blank(content) == \A k \in 1..Len(content) : IsSpace(CharAt(content, k))

\* C19: extract_picks returns no pick for a message whose text is empty or
\* whitespace only, or whose author is a bot, whatever the text holds.
C19_NoBlankNoBot ==
    output.fn = "extract_picks" =>
        \A i \in DOMAIN input.messages :
            LET msg == input.messages[i]
            IN  Blank(msg.content) \/ msg.bot =>
                    \A j \in DOMAIN output.ret : output.ret[j].id # msg.id

C19_Witness ==
    /\ output.fn = "extract_picks"
    /\ Len(input.messages) = 2
    /\ input.messages[1].bot /\ input.messages[1].content = "Lakers ML -150"
    /\ ~input.messages[2].bot /\ input.messages[2].content = "Lakers ML -150"
    /\ Len(output.ret) = 1

\* texts handed to _is_valid_pick: a core between a head and a tail
ValidHeads == {"", "Lakers ", "GM "}
ValidCores ==
    {"ml", "ML", "Over 220", "under", "moneyline", "spread", "pts", "rebounds",
     "vs", "vs.", "@", "Parlay", "lock", "Bet", "units", "potd",
     "-150", "+499", "-99", "+500", "-1000", "+ 150",
     "-", "+", "co-worker", "a+", "nice", "", "2 for 2"}
ValidTails == {"", " tonight", "!"}
ValidTexts == {h \o c \o t : h \in ValidHeads, c \in ValidCores, t \in ValidTails}

InitValid ==
    /\ ledgerFile = LedgerMissing
    /\ added = <<>>
    /\ diskFaulty = FALSE
    /\ sinceGet = {}
    /\ lastCall = NoCall
    /\ channel = <<>>
    /\ NoProcess
    /\ input \in [fn : {"_is_valid_pick"}, content : ValidTexts]
    /\ output = NoOutput

IsValidPick ==
    /\ input.fn = "_is_valid_pick"
    /\ output = NoOutput
    /\ output' = [fn |-> "_is_valid_pick", ret |-> is_valid_pick(input.content)]
    /\ UNCHANGED <<ledgerVars, runVars, input>>

NextValid == IsValidPick

SpecValid == InitValid /\ [][NextValid]_vars

\* C20: _is_valid_pick(text) is true exactly when the text contains "+N" or
\* "-N" for an N in 100..499, or contains, in any case, one of the keywords
\* over, under, ml, moneyline, spread, pts, points, rebounds, assists, vs,
\* @, parlay, straight, pick, lock, play, bet, unit, units; a text whose
\* only special character is a hyphen or a plus sign is not betting-like.
C20_BettingLikeExactly ==
    output.fn = "_is_valid_pick" =>
        LET text == input.content
            keywords == {"over", "under", "ml", "moneyline", "spread", "pts",
                         "points", "rebounds", "assists", "vs", "@", "parlay",
                         "straight", "pick", "lock", "play", "bet", "unit", "units"}
            odds == \E N \in 100..499 :
                        \/ Contains(text, "+" \o ToString(N))
                        \/ Contains(text, "-" \o ToString(N))
        IN  output.ret = (odds \/ \E kw \in keywords : Contains(Lower(text), kw))

----------------------------------------------------------------------------
(* AIWriter.detect_sport called on texts of any kind.                      *)

SportHeads == {"", "Take the ", "LOCK: "}
SportCores ==
    {"Lakers ML", "KNICKS -4", "jets -3", "Rangers over 4.5", "Michigan",
     "assists o5.5", "Jets vs Rangers", "Bruins goals", "goal", "ko",
     "Texas - Oregon", "nil-nil", "UFC 300", "gm", "", "Over 220", "shots and rebounds"}
SportTails == {"", " tonight", "!!"}
SportTexts == {h \o c \o t : h \in SportHeads, c \in SportCores, t \in SportTails}

InitSport ==
    /\ ledgerFile = LedgerMissing
    /\ added = <<>>
    /\ diskFaulty = FALSE
    /\ sinceGet = {}
    /\ lastCall = NoCall
    /\ channel = <<>>
    /\ NoProcess
    /\ input \in [fn : {"detect_sport"}, pick : SportTexts]
    /\ output = NoOutput

DetectSport ==
    /\ input.fn = "detect_sport"
    /\ output = NoOutput
    /\ output' = [fn |-> "detect_sport", ret |-> AiWriter_detect_sport(input.pick)]
    /\ UNCHANGED <<ledgerVars, runVars, input>>

NextSport == DetectSport

SpecSport == InitSport /\ [][NextSport]_vars

\* entry i of the sport table has a keyword in the text, whatever the case
SportHit(i, text) ==
    \E k \in DOMAIN SPORT_KEYWORDS[i].keywords :
        Contains(Lower(text), SPORT_KEYWORDS[i].keywords[k])

\* C21: detect_sport returns one of the configured sport tags or "default":
\* the tag of the first entry of the sport table, in insertion order, with a
\* keyword that occurs in the text whatever the case, and "default" when no
\* entry has one.
C21_FirstSportInTableOrder ==
    output.fn = "detect_sport" =>
        LET text == input.pick
            tags == {SPORT_KEYWORDS[i].sport : i \in DOMAIN SPORT_KEYWORDS}
        IN  /\ output.ret \in tags \cup {"default"}
            /\ output.ret = "default" <=> \A i \in DOMAIN SPORT_KEYWORDS : ~SportHit(i, text)
            /\ \A i \in DOMAIN SPORT_KEYWORDS :
                  SportHit(i, text) /\ (\A j \in 1..(i - 1) : ~SportHit(j, text))
                      => output.ret = SPORT_KEYWORDS[i].sport

C21_Witness ==
    /\ output.fn = "detect_sport"
    /\ input.pick = "Jets vs Rangers"
    /\ output.ret = "NFL"

----------------------------------------------------------------------------
(* The picks of a regular run.                                             *)

\* the places, in the list the channel returned, of the messages that are
\* picks and whose id the ledger file does not hold
UnpostedPlaces(messages, file) ==
    {i \in DOMAIN messages :
        /\ IsPickMessage(messages[i])
        /\ file.status = "ok" => messages[i].id \notin Range(file.ids)}

\* the k-th of a set of places, in ascending order
PlaceAt(P, k) == CHOOSE i \in P : Cardinality({j \in P : j <= i}) = k

\* C22: get_unposted_picks(limit) returns the first `limit` unposted picks,
\* in the order the channel returned their messages, and never more than
\* `limit`; a regular run with max_posts = n calls it with limit = n, calls
\* post_tweet at most n times, and only for picks of that list, in order.
C22_FirstLimitUnposted ==
    Mode = "regular" =>
        /\ lastCall.op = "get_unposted_picks" =>
              LET P == UnpostedPlaces(lastCall.messages, ledgerFile)
              IN  /\ lastCall.limit = args.max_posts
                  /\ picks = lastCall.ret
                  /\ Len(picks) = Min(lastCall.limit, Cardinality(P))
                  /\ \A k \in DOMAIN picks :
                        picks[k].id = lastCall.messages[PlaceAt(P, k)].id
        /\ Len(picks) <= args.max_posts
        /\ tweetCalls <= args.max_posts
        /\ tweetCalls <= Len(handled) + (IF pc = "mark" THEN 1 ELSE 0)
        /\ pc \in {"post", "mark"} => idx = Len(handled) + 1 /\ idx <= Len(picks)
        /\ postedOk \subseteq {picks[i].id : i \in DOMAIN picks}

C22_Witness ==
    /\ Mode = "regular" /\ ~args.dry_run
    /\ args.max_posts = 1
    /\ lastCall.op = "get_unposted_picks"
    /\ Cardinality(UnpostedPlaces(lastCall.messages, ledgerFile)) = 2
    /\ Len(picks) = 1
    /\ picks[1].id = lastCall.messages[1].id
    /\ pc = "post"

----------------------------------------------------------------------------
(* More claims about the tweet composer.                                   *)

\* the first line of a tweet: the analysis (no analysis of the model holds
\* a line break)
AnalysisPart(tweet) ==
    LET breaks == {i \in 1..Len(tweet) : CharAt(tweet, i) = "\n"}
    IN  IF breaks = {} THEN tweet ELSE SubSeq(tweet, 1, SetMin(breaks) - 1)

EndsSentence(s) == EndsWith(s, ".") \/ EndsWith(s, "!") \/ EndsWith(s, "?")

\* the first n characters of s end where a word of s ends: a space follows
\* them, or is the last of them
AtSpaceBoundary(s, n) ==
    /\ n < Len(s)
    /\ CharAt(s, n + 1) = " " \/ (n >= 1 /\ CharAt(s, n) = " ")

\* C23: when the analysis of the returned tweet is not the analysis handed
\* in, it is a prefix of it that ends at a space boundary, followed by an
\* ellipsis unless the prefix ends in ".", "!" or "?".
C23_TrimAtWordBoundary ==
    output.fn = "format_tweet" =>
        LET original == output.analysis
            part == AnalysisPart(output.ret)
        IN  part # original =>
                \E n \in 0..Len(original) :
                    LET prefix == SubSeq(original, 1, n)
                    IN  /\ AtSpaceBoundary(original, n)
                        /\ part = IF EndsSentence(prefix) THEN prefix ELSE prefix \o "..."

----------------------------------------------------------------------------
(* Images and posts.                                                       *)

\* the create_tweet calls made for the pick of an id
CallsFor(id) == {k \in DOMAIN createCalls : createCalls[k].pick = id}

\* C24: in a regular run that is not a dry run, a pick leaves the loop
\* without a create_tweet call only when its processing raised: a pick with
\* no image (get_image_for_pick returned None), or whose upload_media
\* returned None, gets its one create_tweet call as every other pick does,
\* and that call carries no media.
C24_PostsWithoutImage ==
    Mode = "regular" /\ ~args.dry_run =>
        /\ Len(createCalls) = tweetCalls
        /\ \A i \in DOMAIN handled :
              Cardinality(CallsFor(handled[i].id)) =
                  IF handled[i].how = "raised" THEN 0 ELSE 1
        /\ pc = "post" => CallsFor(picks[idx].id) = {}
        /\ \A k \in DOMAIN createCalls :
              /\ ~createCalls[k].image_path => ~createCalls[k].media
              /\ createCalls[k].outcome = "tweet" => createCalls[k].pick \in postedOk

C24_Witness ==
    /\ Mode = "regular" /\ ~args.dry_run
    /\ Len(createCalls) = 2
    /\ ~createCalls[1].image_path /\ ~createCalls[1].media
    /\ createCalls[1].outcome = "tweet"
    /\ createCalls[2].image_path /\ ~createCalls[2].media
    /\ createCalls[2].outcome = "tweet"
    /\ pc = "done" /\ successful = 2

----------------------------------------------------------------------------
(* What get_unposted_picks leaves alone.                                   *)

\* this step is a call of get_unposted_picks
GetsUnposted == lastCall' # lastCall /\ lastCall'.op = "get_unposted_picks"

\* C25: get_unposted_picks never writes the ledger: the ledger file after
\* the call is the ledger file before it, whatever the messages and the
\* ledger; and when no message fetched is betting-like it returns the empty
\* list.
C25_GetWritesNothing ==
    /\ [][GetsUnposted => ledgerFile' = ledgerFile /\ added' = added]_vars
    /\ [](lastCall.op = "get_unposted_picks"
            /\ (\A i \in DOMAIN lastCall.messages :
                   ~is_valid_pick(Strip(lastCall.messages[i].content)))
          => lastCall.ret = <<>>)

C25_Witness ==
    /\ lastCall.op = "get_unposted_picks"
    /\ ledgerFile = LedgerOf(<<>>)
    /\ Len(lastCall.messages) = 2
    /\ \A i \in DOMAIN lastCall.messages :
          ~is_valid_pick(Strip(lastCall.messages[i].content))
    /\ lastCall.ret = <<>>

----------------------------------------------------------------------------
(* Successive regular runs on one channel and one ledger file.             *)

MaxCreates == 2     \* a further run starts while no more tweets were attempted

\* get_unposted_picks reads get_recent_messages(limit=20)
RECENT == 20

\* the pick message of an id
PickMessage(id) == [id |-> id, content |-> " Lakers ML -150 ", bot |-> FALSE]

\* the first run starts on a ledger the program wrote and a channel whose
\* newest message is the pick an earlier run posted last; every write will
\* succeed
InitRuns ==
    /\ ledgerFile \in {LedgerOf(<<>>), LedgerOf([i \in 1..POSTED_CAP |-> i])}
    /\ added = ledgerFile.ids
    /\ diskFaulty = FALSE
    /\ sinceGet = {}
    /\ lastCall = NoCall
    /\ channel = IF ledgerFile.ids = <<>> THEN <<>> ELSE <<PickMessage(LastPostedId)>>
    /\ pc = "main"
    /\ args \in [max_posts : 1..MaxPosts, dry_run : {FALSE}, verify_only : {FALSE},
                 recap : {FALSE}, daily_summary : {FALSE}]
    /\ picks = <<>>
    /\ idx = 0
    /\ image_path = FALSE
    /\ successful = 0
    /\ verified = "not called"
    /\ tweetCalls = 0
    /\ postedOk = {channel[i].id : i \in DOMAIN channel}
    /\ dirty = FALSE
    /\ cleaned = FALSE
    /\ exitCode = -1
    /\ handled = <<>>
    /\ createCalls = [i \in DOMAIN channel |-> Tweet(channel[i].id, FALSE, FALSE, "tweet")]
    /\ NoFunctionCall

\* a newer message appears in the channel; a run reads the channel once, in
\* its fetch, so that the messages arriving before the fetch of a run are
\* those that matter
Arrive ==
    /\ pc = "main"
    /\ \E id \in NewIds :
          /\ \A i \in DOMAIN channel : channel[i].id < id
          /\ channel' = <<PickMessage(id)>> \o channel
    /\ UNCHANGED <<ledgerFile, diskFaulty, added, sinceGet, lastCall, runVars, callVars>>

\* run() lines 54-62, on the most recent messages of the channel
RunFetchRecent == RunFetchOf(FirstN(channel, RECENT))

\* the process has ended, and the scheduler starts the next one
NextRun ==
    /\ pc = "done"
    /\ Len(createCalls) <= MaxCreates
    /\ pc' = "main"
    /\ picks' = <<>>
    /\ idx' = 0
    /\ image_path' = FALSE
    /\ successful' = 0
    /\ verified' = "not called"
    /\ dirty' = FALSE
    /\ cleaned' = FALSE
    /\ exitCode' = -1
    /\ handled' = <<>>
    /\ UNCHANGED <<ledgerVars, callVars, args, tweetCalls, postedOk, createCalls>>

NextRuns ==
    \/ Arrive
    \/ RunVerify \/ RunFetchRecent \/ RunProcess \/ RunPost \/ RunMark \/ RunCleanup
    \/ Exit
    \/ NextRun

SpecRuns == InitRuns /\ [][NextRuns]_vars

\* C26: over successive regular runs whose ledger reads and writes all
\* succeed, on a channel that only gains newer messages, no pick is posted
\* with success more than once.
C26_NoPickPostedTwice ==
    \A j, k \in DOMAIN createCalls :
        /\ j < k
        /\ createCalls[j].outcome = "tweet"
        /\ createCalls[k].outcome = "tweet"
        => createCalls[j].pick # createCalls[k].pick

\* C27: when a slip link is handed to format_tweet, and the link, the short
\* promo, the short hashtags and the separators reserved for them fit in
\* 280 characters, the tweet returned holds the whole link, trimmed or not.
C27_SlipLinkKept ==
    output.fn = "format_tweet" /\ input.slip_link # ""
        /\ reserved(input.slip_link) <= 280
        => Contains(output.ret, input.slip_link)

C27_Witness ==
    /\ output.fn = "format_tweet"
    /\ input.slip_link = LongestFittingLink
    /\ reserved(input.slip_link) = 280
    /\ Len(output.analysis) > 280
    /\ Contains(output.ret, input.slip_link)


----------------------------------------------------------------------------
(* mark_as_posted on a ledger file that cannot be read, on a disk that     *)
(* never fails a write.                                                    *)

InitLedgerDamagedReliable == InitLedgerDamaged /\ ~diskFaulty

SpecLedgerDamagedReliable == InitLedgerDamagedReliable /\ [][NextLedger]_vars

\* the first mark_as_posted call on the damaged file has just returned
FirstMarkOnDamaged == lastCall.op = "mark_as_posted" /\ Len(added) = 1

\* C28: mark_as_posted(id) called on a ledger file that is unreadable or
\* corrupt does not fail, and leaves a ledger holding exactly one id, the
\* new one.
C28_MarkRewritesDamagedLedger ==
    FirstMarkOnDamaged =>
        /\ ~lastCall.raised
        /\ ledgerFile = LedgerOf(<<lastCall.pick_id>>)


----------------------------------------------------------------------------
(* The side a moneyline pick is graded for.                                *)

\* the aliases of the table that occur in the pick text, by table position
AliasesInText == {a \in DOMAIN team_aliases : Contains(ContentLower, team_aliases[a][1])}

FirstAliasInText == team_aliases[SetMin(AliasesInText)][1]

Names(alias, team) == Contains(Lower(team.name), alias)

ReachesMoneyline ==
    /\ GradeReturned
    /\ SaysMoneyline
    /\ MatchedGame # NoGame /\ MatchedGame.completed
    /\ AliasesInText # {}

\* C29: a moneyline pick is graded for the side that the first alias of the
\* table occurring in its text names, whatever other aliases the text holds
\* and wherever they stand in it; it is PENDING when that alias names
\* neither side, even if another alias of the text names one.
C29_FirstAliasDecidesSide ==
    ReachesMoneyline =>
        LET home == MatchedGame.home_team
            away == MatchedGame.away_team
        IN  IF Names(FirstAliasInText, home)
            THEN /\ output.ret.graded
                 /\ home.score > away.score => output.ret.result = "WIN"
                 /\ home.score < away.score => output.ret.result = "LOSS"
            ELSE IF Names(FirstAliasInText, away)
            THEN /\ output.ret.graded
                 /\ away.score > home.score => output.ret.result = "WIN"
                 /\ away.score < home.score => output.ret.result = "LOSS"
            ELSE output.ret.result = "PENDING"

\* both sides are named, the later alias of the table first in the text, and
\* the pick is graded for the side of the earlier alias
C29_Witness ==
    /\ ReachesMoneyline
    /\ input.bet.content = "Celtics ML vs Lakers"
    /\ MatchedGame.home_team.name = "Los Angeles Lakers"
    /\ MatchedGame.home_team.score > MatchedGame.away_team.score
    /\ output.ret.result = "WIN"


----------------------------------------------------------------------------
(* The slip image of a pick: the images extract_picks lists for a message, *)
(* the one get_pick_with_image downloads, and the one run() hands to slip  *)
(* analysis and to the tweet.                                              *)

MaxAttachments == 2
MaxEmbeds == 1

Attachment(content_type, filename) == [content_type |-> content_type, filename |-> filename]

Attachments == {Attachment(t, f) : t \in {"image/png", "text/plain"},
                                   f \in {"slip.png", "notes.txt"}}

\* an embed, with a preview image or without one
Embeds == [image : BOOLEAN]

ImageMessages ==
    [attachments : UNION {[1..n -> Attachments] : n \in 0..MaxAttachments},
     embeds : UNION {[1..n -> Embeds] : n \in 0..MaxEmbeds}]

\* pick["images"]: the image attachments, then the images of the embeds
\* under the filename embed_image.png
extract_images(msg) ==
    LET IsImage(a) == StartsAt(a.content_type, 1, "image/")
        HasImage(e) == e.image
        atts == SelectSeq(msg.attachments, IsImage)
        embs == SelectSeq(msg.embeds, HasImage)
    IN  [i \in DOMAIN atts |-> [filename |-> atts[i].filename, from |-> "attachment"]]
          \o [i \in DOMAIN embs |-> [filename |-> "embed_image.png", from |-> "embed"]]

NoImage == 0

\* get_pick_with_image: the place in pick["images"] of the first image whose
\* download succeeds, local_image_path being the file it was saved to
get_pick_with_image(images, downloads) ==
    LET saved == {i \in DOMAIN images : downloads[i]}
    IN  IF saved = {} THEN NoImage ELSE SetMin(saved)

\* run(): local_image_path is the slip image if some image of the pick has a
\* filename that does not start with "embed"
slip_image(images, local_image_path) ==
    IF /\ local_image_path # NoImage
       /\ \E i \in DOMAIN images :
             images[i].filename # "" /\ ~StartsAt(images[i].filename, 1, "embed")
    THEN local_image_path
    ELSE NoImage

InitSlip ==
    /\ ledgerFile = LedgerMissing
    /\ added = <<>>
    /\ diskFaulty = FALSE
    /\ sinceGet = {}
    /\ lastCall = NoCall
    /\ channel = <<>>
    /\ NoProcess
    /\ \E msg \in ImageMessages :
          \E downloads \in [1..Len(extract_images(msg)) -> BOOLEAN] :
             input = [fn |-> "slip_image", msg |-> msg, downloads |-> downloads]
    /\ output = NoOutput

SlipImage ==
    /\ input.fn = "slip_image"
    /\ output = NoOutput
    /\ LET images == extract_images(input.msg)
           local_image_path == get_pick_with_image(images, input.downloads)
       IN  output' = [fn |-> "slip_image",
                      images |-> images,
                      local_image_path |-> local_image_path,
                      image_path |-> slip_image(images, local_image_path)]
    /\ UNCHANGED <<ledgerVars, runVars, input>>

NextSlip == SlipImage

SpecSlip == InitSlip /\ [][NextSlip]_vars

\* C30: the image a regular run hands to slip analysis and posts as the slip
\* screenshot was downloaded from an attachment of the message, never from
\* the preview image of an embed.
C30_SlipIsAttachment ==
    output.fn = "slip_image" /\ output.image_path # NoImage
        => output.images[output.image_path].from = "attachment"

=============================================================================
